---- MODULE Spec2Model ----
(***************************************************************************)
(* A model of the neon texture tools: the overlay compositor               *)
(* (neon_texture_overlay.py), the per-colour grid (texture_color_grid.py), *)
(* the blend-mode generator (texture_blend_generator.py) and the batch     *)
(* driver (batch_color_grid_generator.py).                                 *)
(*                                                                         *)
(* Strings are sequences of one-character strings, so that startswith,     *)
(* split, replace, splitext and lower are computed as Python computes      *)
(* them.  An opacity is a fraction <<n, d>>.  An image is a record         *)
(* [w, h, px] with px the row-major sequence of its <<r, g, b, a>> pixels. *)
(***************************************************************************)
EXTENDS Integers, Sequences, FiniteSets, TLC

VARIABLES
    files,      \* the file system: path -> content of the file at that path
    dirs,       \* the directories that exist
    space,      \* how many more files the disk has room for
    rng,        \* the state of the global generator of the random module
    draws,      \* how many unrelated random draws the process has made
    seen,       \* the grids built so far: texture name, colour order, and for a run of
                \* process_texture_color_grid what it returned and the rows it warned about
    pc,         \* where the process is
    batch,      \* the locals of batch_process_textures
    ret         \* what the last operation was given and what it returned or raised

vars == <<files, dirs, space, rng, draws, seen, pc, batch, ret>>

-----------------------------------------------------------------------------
(* Bounds of the model. *)

\* Source images have at most MaxPixels pixels (w * h <= MaxPixels).
MaxPixels == 2

\* Opacities range over the tenths from -OpacityOver/10 to 1 + OpacityOver/10.
OpacityOver == 1

-----------------------------------------------------------------------------
(* Strings *)

\* str.startswith
StartsWith(s, p) == Len(p) <= Len(s) /\ SubSeq(s, 1, Len(p)) = p

\* str.endswith
EndsWith(s, p) == Len(p) <= Len(s) /\ SubSeq(s, Len(s) - Len(p) + 1, Len(s)) = p

\* The indexes at which the character c occurs in s
Occurrences(s, c) == {i \in 1..Len(s) : s[i] = c}

\* str.find: the least 1-based index at which c occurs in s, 0 when it does not
Find(s, c) ==
    LET occ == Occurrences(s, c)
    IN  IF occ = {} THEN 0 ELSE CHOOSE i \in occ : \A j \in occ : i <= j

\* str.rfind: the greatest 1-based index at which c occurs in s, 0 when it does not
RFind(s, c) ==
    LET occ == Occurrences(s, c)
    IN  IF occ = {} THEN 0 ELSE CHOOSE i \in occ : \A j \in occ : i >= j

\* s.split(c)[0]
SplitFirst(s, c) ==
    LET at == Find(s, c)
    IN  IF at = 0 THEN s ELSE SubSeq(s, 1, at - 1)

UpperCase == [a \in {"A", "E", "D", "G", "J", "N", "P", "R", "S", "Y"} |->
                CASE a = "A" -> "a" [] a = "E" -> "e" [] a = "D" -> "d" [] a = "G" -> "g"
                  [] a = "J" -> "j" [] a = "N" -> "n" [] a = "P" -> "p" [] a = "R" -> "r"
                  [] a = "S" -> "s" [] a = "Y" -> "y"]

\* str.lower, on the alphabet of the model
Lower(s) == [i \in 1..Len(s) |-> IF s[i] \in DOMAIN UpperCase THEN UpperCase[s[i]] ELSE s[i]]

EXT_PNG == <<".", "p", "n", "g">>
EXT_JPG == <<".", "j", "p", "g">>
EXT_JPEG == <<".", "j", "p", "e", "g">>
EXT_MCMETA == <<".", "m", "c", "m", "e", "t", "a">>

-----------------------------------------------------------------------------
(* Paths: a path is [dir, name], the directory it names a file in ("" for the
   working directory) and the file's name, in which no separator occurs *)

\* os.path.join(a, b), b a file name
PathJoin(a, b) == [dir |-> a, name |-> b]

\* A file name given as a path: the file is in the working directory
InCwd(b) == [dir |-> "", name |-> b]

\* os.path.dirname
Dirname(p) == p.dir

\* os.path.basename
Basename(p) == p.name

\* The index of the dot that starts the extension of the file name n, 0 when n has
\* none: the last dot of n, unless only dots come before it.
ExtDot(n) ==
    LET dot == RFind(n, ".")
    IN  IF \E i \in 1..(dot - 1) : n[i] # "." THEN dot ELSE 0

\* os.path.splitext(p): <<root, ext>>
Splitext(p) ==
    LET dot == ExtDot(p.name)
    IN  IF dot = 0 THEN <<p, <<>>>>
        ELSE <<[p EXCEPT !.name = SubSeq(p.name, 1, dot - 1)],
               SubSeq(p.name, dot, Len(p.name))>>

\* path + suffix
PathPlus(p, suffix) == [p EXCEPT !.name = @ \o suffix]

\* os.path.exists
PathExists(p) == p \in DOMAIN files

\* f with x mapped to v, x added to the domain when it is not there
Put(f, x, v) == [y \in DOMAIN f \cup {x} |-> IF y = x THEN v ELSE f[y]]

-----------------------------------------------------------------------------
(* The palette *)

NEON_COLORS ==
    << [name |-> <<"r", "e", "d">>, rgb |-> <<255, 0, 0>>],
       [name |-> <<"o", "r", "a", "n", "g", "e">>, rgb |-> <<255, 165, 0>>],
       [name |-> <<"y", "e", "l", "l", "o", "w">>, rgb |-> <<255, 255, 0>>],
       [name |-> <<"l", "i", "m", "e">>, rgb |-> <<50, 255, 50>>],
       [name |-> <<"g", "r", "e", "e", "n">>, rgb |-> <<0, 255, 0>>],
       [name |-> <<"c", "y", "a", "n">>, rgb |-> <<0, 255, 255>>],
       [name |-> <<"b", "l", "u", "e">>, rgb |-> <<0, 100, 255>>],
       [name |-> <<"p", "u", "r", "p", "l", "e">>, rgb |-> <<128, 0, 255>>],
       [name |-> <<"m", "a", "g", "e", "n", "t", "a">>, rgb |-> <<255, 0, 255>>],
       [name |-> <<"p", "i", "n", "k">>, rgb |-> <<255, 20, 147>>] >>

\* get_color_names(): the keys of NEON_COLORS, in insertion order
get_color_names == [i \in 1..Len(NEON_COLORS) |-> NEON_COLORS[i].name]

ColorNameSet == {NEON_COLORS[i].name : i \in 1..Len(NEON_COLORS)}

\* get_color(color_name): [ok, val] or [ok, err]
get_color(color_name) ==
    IF Lower(color_name) \notin ColorNameSet
    THEN [ok |-> FALSE, err |-> "ValueError"]
    ELSE [ok |-> TRUE,
          val |-> NEON_COLORS[CHOOSE i \in 1..Len(NEON_COLORS) :
                                  NEON_COLORS[i].name = Lower(color_name)].rgb]

RGBs == {NEON_COLORS[i].rgb : i \in 1..Len(NEON_COLORS)}

-----------------------------------------------------------------------------
(* Images and the imaging library's operations the tools call *)

\* The pixels source images are made of: an opaque one and a half transparent one.
Pixels == {<<200, 30, 60, 255>>, <<10, 200, 30, 128>>}

Sizes == {s \in (1..MaxPixels) \X (1..MaxPixels) : s[1] * s[2] <= MaxPixels}

Images == UNION {{[w |-> s[1], h |-> s[2], px |-> p] : p \in [1..(s[1] * s[2]) -> Pixels]}
                 : s \in Sizes}

\* Image.new('RGBA', size, fill)
ImageNew(size, fill) ==
    [w |-> size[1], h |-> size[2], px |-> [i \in 1..(size[1] * size[2]) |-> fill]]

\* The library's division by 255 of a sum of products of two bytes
ShiftForDiv255(a) == ((a \div 256) + a) \div 256

Div255(a) == ShiftForDiv255(a + 128)

\* One pixel of Image.alpha_composite(dst, src): src over dst
CompositePixel(dst, src) ==
    IF src[4] = 0 THEN dst
    ELSE LET blend   == dst[4] * (255 - src[4])
             outa255 == src[4] * 255 + blend
             coef1   == (src[4] * 255 * 255 * 128) \div outa255
             coef2   == 255 * 128 - coef1
             ch(i)   == ShiftForDiv255(src[i] * coef1 + dst[i] * coef2 + 128 * 128) \div 128
         IN  <<ch(1), ch(2), ch(3), ShiftForDiv255(outa255 + 128)>>

\* Image.alpha_composite(im1, im2)
AlphaComposite(im1, im2) ==
    [im1 EXCEPT !.px = [i \in 1..Len(im1.px) |-> CompositePixel(im1.px[i], im2.px[i])]]

\* One channel of Image.blend(im1, im2, alpha), alpha = q[1] / q[2]:
\* in1 + alpha * (in2 - in1), truncated, and clipped to a byte
BlendChannel(in1, in2, q) ==
    LET t == in1 * q[2] + q[1] * (in2 - in1)
    IN  IF t <= 0 THEN 0 ELSE IF t >= 255 * q[2] THEN 255 ELSE t \div q[2]

\* Image.blend(im1, im2, alpha)
ImageBlend(im1, im2, q) ==
    [im1 EXCEPT !.px = [i \in 1..Len(im1.px) |->
        [c \in 1..4 |-> BlendChannel(im1.px[i][c], im2.px[i][c], q)]]]

\* ImageEnhance.Brightness(image).enhance(factor): the blend of a black image that
\* has the alpha of image with image, by factor
EnhanceBrightness(image, factor) ==
    LET degenerate == [image EXCEPT !.px = [i \in 1..Len(image.px) |->
                                               <<0, 0, 0, image.px[i][4]>>]]
    IN  ImageBlend(degenerate, image, factor)

\* The pixel of im at column x, row y (from 0)
PixelAt(im, x, y) == im.px[y * im.w + x + 1]

\* canvas.paste(src, (x0, y0), mask): each channel of the canvas under src is mixed
\* with src by the alpha of mask
Paste(canvas, src, x0, y0, mask) ==
    [canvas EXCEPT !.px = [i \in 1..Len(canvas.px) |->
        LET x == (i - 1) % canvas.w
            y == (i - 1) \div canvas.w
        IN  IF x >= x0 /\ x < x0 + src.w /\ y >= y0 /\ y < y0 + src.h
            THEN LET s == PixelAt(src, x - x0, y - y0)
                     m == PixelAt(mask, x - x0, y - y0)[4]
                 IN  [c \in 1..4 |-> Div255(canvas.px[i][c] * (255 - m) + s[c] * m)]
            ELSE canvas.px[i]]]

\* The w x h region of im whose top left corner is (x0, y0)
Crop(im, x0, y0, w, h) ==
    [w |-> w, h |-> h,
     px |-> [i \in 1..(w * h) |-> PixelAt(im, x0 + ((i - 1) % w), y0 + ((i - 1) \div w))]]

-----------------------------------------------------------------------------
(* neon_texture_overlay.py *)

SCREEN == <<"s", "c", "r", "e", "e", "n">>
OVERLAY == <<"o", "v", "e", "r", "l", "a", "y">>
MULTIPLY == <<"m", "u", "l", "t", "i", "p", "l", "y">>
NORMAL == <<"n", "o", "r", "m", "a", "l">>

\* A file that is no image
CORRUPT == "corrupt"

\* int(255 * opacity)
OverlayAlpha(opacity) == (255 * opacity[1]) \div opacity[2]

\* 0.0 <= opacity <= 1.0
OpacityInRange(opacity) == 0 <= opacity[1] /\ opacity[1] <= opacity[2]

\* create_neon_overlay, were it to clamp the opacity to [0, 1] instead of raising
create_neon_overlay_clamping(size, neon_color, opacity) ==
    LET clamped == IF opacity[1] < 0 THEN <<0, 1>>
                   ELSE IF opacity[1] > opacity[2] THEN <<1, 1>> ELSE opacity
    IN  [ok |-> TRUE,
         val |-> ImageNew(size, <<neon_color[1], neon_color[2], neon_color[3],
                                  OverlayAlpha(clamped)>>)]

\* create_neon_overlay, were it to take size as (height, width)
create_neon_overlay_transposed(size, neon_color, opacity) ==
    IF ~OpacityInRange(opacity) THEN [ok |-> FALSE, err |-> "ValueError"]
    ELSE [ok |-> TRUE,
          val |-> ImageNew(<<size[2], size[1]>>,
                           <<neon_color[1], neon_color[2], neon_color[3],
                             OverlayAlpha(opacity)>>)]

\* create_neon_overlay(size, neon_color, opacity)
create_neon_overlay(size, neon_color, opacity) ==
    IF ~OpacityInRange(opacity) THEN [ok |-> FALSE, err |-> "ValueError"]
    ELSE [ok |-> TRUE,
          val |-> ImageNew(size, <<neon_color[1], neon_color[2], neon_color[3],
                                   OverlayAlpha(opacity)>>)]

\* The default glow_intensity, 1.5
GLOW_INTENSITY == <<3, 2>>

\* apply_neon_glow(image, glow_color, glow_intensity)
apply_neon_glow(image, glow_color, glow_intensity) == EnhanceBrightness(image, glow_intensity)

\* blend_texture_with_neon, were 'overlay' to composite an overlay of full alpha and
\* a tag that names no mode to be refused
blend_texture_with_neon_strict(texture, neon_color, opacity, blend_mode) ==
    LET neon_overlay == create_neon_overlay(<<texture.w, texture.h>>, neon_color, opacity)
        opaque == ImageNew(<<texture.w, texture.h>>,
                           <<neon_color[1], neon_color[2], neon_color[3], 255>>)
        result ==
            IF blend_mode = SCREEN THEN ImageBlend(texture, neon_overlay.val, opacity)
            ELSE IF blend_mode = OVERLAY THEN AlphaComposite(texture, opaque)
            ELSE IF blend_mode = MULTIPLY
                 THEN ImageBlend(texture, neon_overlay.val, <<opacity[1], 2 * opacity[2]>>)
            ELSE AlphaComposite(texture, neon_overlay.val)
    IN  IF ~neon_overlay.ok THEN neon_overlay
        ELSE IF blend_mode \notin {SCREEN, OVERLAY, MULTIPLY, NORMAL}
        THEN [ok |-> FALSE, err |-> "ValueError"]
        ELSE [ok |-> TRUE, val |-> apply_neon_glow(result, neon_color, GLOW_INTENSITY)]

\* blend_texture_with_neon(texture, neon_color, opacity, blend_mode)
blend_texture_with_neon(texture, neon_color, opacity, blend_mode) ==
    LET neon_overlay == create_neon_overlay(<<texture.w, texture.h>>, neon_color, opacity)
        result ==
            IF blend_mode = SCREEN THEN ImageBlend(texture, neon_overlay.val, opacity)
            ELSE IF blend_mode = OVERLAY THEN AlphaComposite(texture, neon_overlay.val)
            ELSE IF blend_mode = MULTIPLY
                 THEN ImageBlend(texture, neon_overlay.val, <<opacity[1], 2 * opacity[2]>>)
            ELSE AlphaComposite(texture, neon_overlay.val)
    IN  IF ~neon_overlay.ok THEN neon_overlay
        ELSE [ok |-> TRUE, val |-> apply_neon_glow(result, neon_color, GLOW_INTENSITY)]

\* What a file holds: an image in a format, a text, or bytes that are no image
PngFile(image) == [format |-> "PNG", data |-> image]
JpegFile(image) == [format |-> "JPEG", data |-> image]
TextFile(text) == [format |-> "text", data |-> text]
CorruptFile == [format |-> "none", data |-> CORRUPT]

\* The RGB image save_image makes for a JPEG: image pasted on white through its alpha
\* (the lossy encoding itself is not modelled)
FlattenOnWhite(image) ==
    LET white  == ImageNew(<<image.w, image.h>>, <<255, 255, 255, 255>>)
        pasted == Paste(white, image, 0, 0, image)
    IN  [pasted EXCEPT !.px = [i \in 1..Len(pasted.px) |->
            <<pasted.px[i][1], pasted.px[i][2], pasted.px[i][3], 255>>]]

\* load_image(input_path), on the file system (fs, ds)
load_image(fs, ds, input_path) ==
    IF input_path \notin DOMAIN fs
    THEN [ok |-> FALSE, err |-> "FileNotFoundError"]
    ELSE IF fs[input_path].format \notin {"PNG", "JPEG"}
         THEN [ok |-> FALSE, err |-> "IOError"]
         ELSE [ok |-> TRUE, val |-> fs[input_path].data]

\* save_image, were it to keep the requested path whatever its extension
save_image_unrenamed(fs, ds, sp, image, output_path) ==
    LET output_dir == Dirname(output_path)
        mkdir      == output_dir # "" /\ output_dir \notin ds
        ds2        == IF mkdir THEN ds \cup {output_dir} ELSE ds
        file_ext   == Lower(Splitext(output_path)[2])
        none       == [ok |-> FALSE, err |-> "IOError", files |-> fs, dirs |-> ds,
                       space |-> sp, path |-> InCwd(<<>>), format |-> "none"]
    IN  IF sp = 0 THEN none
        ELSE IF file_ext \in {EXT_JPG, EXT_JPEG}
        THEN [ok |-> TRUE, err |-> "none", dirs |-> ds2, space |-> sp - 1,
              path |-> output_path, format |-> "JPEG",
              files |-> Put(fs, output_path, JpegFile(FlattenOnWhite(image)))]
        ELSE [ok |-> TRUE, err |-> "none", dirs |-> ds2, space |-> sp - 1,
              path |-> output_path, format |-> "PNG",
              files |-> Put(fs, output_path, PngFile(image))]

\* save_image(image, output_path, quality) on the file system (fs, ds) with room for
\* sp more files: [ok, err, files, dirs, space, path, format], path the file written.
\* With no room left, os.makedirs or the save raises an OSError (IOError).
save_image(fs, ds, sp, image, output_path) ==
    LET output_dir == Dirname(output_path)
        mkdir      == output_dir # "" /\ output_dir \notin ds
        ds2        == IF mkdir THEN ds \cup {output_dir} ELSE ds
        split      == Splitext(output_path)
        file_ext   == Lower(split[2])
        png_path   == PathPlus(split[1], EXT_PNG)
        none       == [ok |-> FALSE, err |-> "IOError", files |-> fs, dirs |-> ds,
                       space |-> sp, path |-> InCwd(<<>>), format |-> "none"]
    IN  IF sp = 0 THEN none
        ELSE IF file_ext \in {EXT_JPG, EXT_JPEG}
        THEN [ok |-> TRUE, err |-> "none", dirs |-> ds2, space |-> sp - 1,
              path |-> output_path, format |-> "JPEG",
              files |-> Put(fs, output_path, JpegFile(FlattenOnWhite(image)))]
        ELSE IF file_ext = EXT_PNG
        THEN [ok |-> TRUE, err |-> "none", dirs |-> ds2, space |-> sp - 1,
              path |-> output_path, format |-> "PNG",
              files |-> Put(fs, output_path, PngFile(image))]
        ELSE [ok |-> TRUE, err |-> "none", dirs |-> ds2, space |-> sp - 1,
              path |-> png_path, format |-> "PNG",
              files |-> Put(fs, png_path, PngFile(image))]

\* process_texture_with_neon(input_path, output_path, neon_color, opacity, blend_mode):
\* [ok, err, files, dirs, space, saves], saves the calls of save_image it made
process_texture_with_neon(fs, ds, sp, input_path, output_path, neon_color, opacity, blend_mode) ==
    LET texture == load_image(fs, ds, input_path)
        processed_image == blend_texture_with_neon(texture.val, neon_color, opacity, blend_mode)
        saved == save_image(fs, ds, sp, processed_image.val, output_path)
        quit(e) == [ok |-> FALSE, err |-> e, files |-> fs, dirs |-> ds, space |-> sp,
                    saves |-> <<>>]
    IN  IF ~texture.ok THEN quit(texture.err)
        ELSE IF ~processed_image.ok THEN quit(processed_image.err)
        ELSE [ok |-> saved.ok, err |-> saved.err, files |-> saved.files,
              dirs |-> saved.dirs, space |-> saved.space, saves |-> <<output_path>>]

-----------------------------------------------------------------------------
(* The inputs of the overlay tool *)

INPUT_BASE_PATH == "orig/assets/minecraft/textures/blocks"
OUTPUT_BASE_PATH == "resource-pack/assets/minecraft/textures/blocks"

OpacityInputs == {<<n, 10>> : n \in (0 - OpacityOver)..(10 + OpacityOver)}

\* The four named modes and a tag that is none of them
BlendModeInputs == {SCREEN, OVERLAY, MULTIPLY, NORMAL, <<"a", "d", "d">>}

STONE == <<"s", "t", "o", "n", "e">>
GONE == <<"g", "o", "n", "e">>

\* os.path.join(INPUT_BASE_PATH, f"{texture_name}.png")
TexturePath(texture_name) == PathJoin(INPUT_BASE_PATH, texture_name \o EXT_PNG)

\* The file system before a tool runs: the source directory with one texture
SourceTree(image) == [p \in {TexturePath(STONE)} |-> PngFile(image)]

\* The output paths and colours the overlay tool is run with
OverlayOutputs ==
    {PathJoin(OUTPUT_BASE_PATH, <<"o", "u", "t">> \o EXT_PNG),
     InCwd(<<"g", "r", "i", "d", ".", "t", "g", "a">>)}

OverlayColors == {<<0, 255, 255>>, <<255, 20, 147>>}

NoBatch == [textures |-> <<>>, i |-> 0, success_count |-> 0, failed_textures |-> <<>>,
            attempted |-> <<>>]

InitOverlay ==
    /\ \E image \in Images : files = SourceTree(image)
    /\ dirs = {INPUT_BASE_PATH}
    /\ space \in {0, 1}
    /\ rng = 0
    /\ draws = 0
    /\ seen = {}
    /\ pc = "ready"
    /\ batch = NoBatch
    /\ ret = [op |-> "none"]

\* A caller composites the texture it has loaded from input_path.
BlendTextureWithNeon(input_path, neon_color, opacity, blend_mode) ==
    /\ pc = "ready"
    /\ load_image(files, dirs, input_path).ok
    /\ \E texture \in {load_image(files, dirs, input_path).val} :
       \E r \in {blend_texture_with_neon(texture, neon_color, opacity, blend_mode)} :
           ret' = [op |-> "blend_texture_with_neon", texture |-> texture,
                   neon_color |-> neon_color, opacity |-> opacity,
                   blend_mode |-> blend_mode,
                   outcome |-> IF r.ok THEN "ok" ELSE r.err,
                   image |-> IF r.ok THEN <<r.val>> ELSE <<>>,
                   neon_overlay |-> create_neon_overlay(<<texture.w, texture.h>>,
                                                        neon_color, opacity)]
    /\ pc' = "done"
    /\ UNCHANGED <<files, dirs, space, rng, draws, seen, batch>>

\* One run of process_texture_with_neon.
ProcessTextureWithNeon(input_path, output_path, neon_color, opacity, blend_mode) ==
    /\ pc = "ready"
    /\ \E r \in {process_texture_with_neon(files, dirs, space, input_path, output_path,
                                              neon_color, opacity, blend_mode)} :
           /\ files' = r.files
           /\ dirs' = r.dirs
           /\ space' = r.space
           /\ ret' = [op |-> "process_texture_with_neon", input_path |-> input_path,
                      output_path |-> output_path, neon_color |-> neon_color,
                      opacity |-> opacity, blend_mode |-> blend_mode,
                      outcome |-> IF r.ok THEN "ok" ELSE r.err,
                      saves |-> r.saves,
                      wrote |-> {p \in DOMAIN r.files : p \notin DOMAIN files
                                                         \/ r.files[p] # files[p]}]
    /\ pc' = "done"
    /\ UNCHANGED <<rng, draws, seen, batch>>

NextOverlay ==
    \/ \E neon_color \in RGBs, opacity \in OpacityInputs, blend_mode \in BlendModeInputs :
            BlendTextureWithNeon(TexturePath(STONE), neon_color, opacity, blend_mode)
    \/ \E input_path \in {TexturePath(STONE), TexturePath(GONE)},
          output_path \in OverlayOutputs, neon_color \in OverlayColors,
          opacity \in OpacityInputs,
          blend_mode \in BlendModeInputs :
            ProcessTextureWithNeon(input_path, output_path, neon_color, opacity, blend_mode)

SpecOverlay == InitOverlay /\ [][NextOverlay]_vars

\* C1: an opacity outside [0, 1] makes blend_texture_with_neon raise ValueError and
\* return no image, whatever the colour and the blend mode; process_texture_with_neon
\* then never calls save_image and writes no file.
C1_InvalidOpacityRejected ==
    /\ (ret.op = "blend_texture_with_neon" /\ ~OpacityInRange(ret.opacity))
          => (ret.outcome = "ValueError" /\ ret.image = <<>>)
    /\ (ret.op = "process_texture_with_neon" /\ ~OpacityInRange(ret.opacity))
          => /\ ret.saves = <<>>
             /\ ret.wrote = {}
             /\ ret.outcome # "ok"
             /\ ret.input_path \in DOMAIN files => ret.outcome = "ValueError"

C1_Witness ==
    /\ ret.op = "process_texture_with_neon"
    /\ ~OpacityInRange(ret.opacity)
    /\ ret.outcome = "ValueError"
    /\ ret.blend_mode = OVERLAY

\* An RGBA image of exactly w x h pixels
IsRGBA(image, w, h) ==
    /\ image.w = w
    /\ image.h = h
    /\ Len(image.px) = w * h
    /\ \A i \in 1..Len(image.px) :
          Len(image.px[i]) = 4 /\ \A c \in 1..4 : image.px[i][c] \in 0..255

\* C18: for every colour, every opacity in [0, 1] and every blend mode,
\* blend_texture_with_neon returns an RGBA image of exactly the width and height of
\* the source, and the overlay it builds has that width and height too.
C18_OutputSizeOfSource ==
    (ret.op = "blend_texture_with_neon" /\ OpacityInRange(ret.opacity))
        => /\ ret.outcome = "ok"
           /\ Len(ret.image) = 1
           /\ IsRGBA(ret.image[1], ret.texture.w, ret.texture.h)
           /\ ret.neon_overlay.ok
           /\ IsRGBA(ret.neon_overlay.val, ret.texture.w, ret.texture.h)

C18_Witness ==
    /\ ret.op = "blend_texture_with_neon"
    /\ ret.outcome = "ok"
    /\ ret.texture.w = 1
    /\ ret.texture.h = 2
    /\ ret.blend_mode = MULTIPLY

-----------------------------------------------------------------------------
(* The random module: the global generator.  Its state is a number; seeding with a
   string sets the state to a hash of the string, seeding with no argument sets it
   from the operating system's entropy, and every draw advances it. *)

\* The states random.seed() can leave the generator in are Entropy(1..MaxEntropy).
MaxEntropy == 2

\* The process makes at most MaxDraws random draws of its own.
MaxDraws == 1

\* The characters of texture names, in code point order
Alphabet == <<"-", ".", "_", "a", "b", "c", "d", "e", "f", "g", "h", "i", "j", "k", "l",
              "m", "n", "o", "p", "q", "r", "s", "t", "u", "v", "w", "x", "y", "z">>

\* The rank of the character c
CharCode(c) == CHOOSE i \in 1..Len(Alphabet) : Alphabet[i] = c

RECURSIVE StrHash(_)
StrHash(s) ==
    IF s = <<>> THEN 7
    ELSE (StrHash(SubSeq(s, 1, Len(s) - 1)) * 31 + CharCode(s[Len(s)])) % 65537

\* The state after random.seed(a), a a string
random_seed(a) == StrHash(a)

\* The state after random.seed(), the operating system having supplied entropy e
Entropy(e) == (e * 4099 + 1) % 65537

EntropyStates == {Entropy(e) : e \in 1..MaxEntropy}

\* The state after one draw
Advance(state) == (state * 75 + 74) % 65537

\* random.shuffle(x), the generator in state: <<the shuffled list, the state after>>.
\* for i in reversed(range(1, len(x))): j = randbelow(i + 1); x[i], x[j] = x[j], x[i]
RECURSIVE Shuffle(_, _, _)
Shuffle(x, state, i) ==
    IF i < 1 THEN <<x, state>>
    ELSE LET next == Advance(state)
             j    == next % (i + 1)
         IN  Shuffle([x EXCEPT ![i + 1] = x[j + 1], ![j + 1] = x[i + 1]], next, i - 1)

\* random.shuffle, were it to draw each element from the whole list anew
random_shuffle_redrawing(x, state) ==
    <<[i \in 1..Len(x) |-> x[((state + i * i) % Len(x)) + 1]], Advance(state)>>

random_shuffle(x, state) == Shuffle(x, state, Len(x) - 1)

-----------------------------------------------------------------------------
(* texture_color_grid.py *)

BLEND_MODE == OVERLAY
OPACITY == <<6, 10>>

BLOCK_GROUPS ==
    << <<"l", "o", "g", "_", "o", "a", "k">>,
       <<"l", "o", "g", "_", "s", "p", "r", "u", "c", "e">>,
       <<"l", "o", "g", "_", "b", "i", "r", "c", "h">>,
       <<"l", "o", "g", "_", "j", "u", "n", "g", "l", "e">>,
       <<"l", "o", "g", "_", "a", "c", "a", "c", "i", "a">>,
       <<"l", "o", "g", "_", "b", "i", "g", "_", "o", "a", "k">>,
       <<"q", "u", "a", "r", "t", "z", "_", "b", "l", "o", "c", "k", "_", "l", "i", "n", "e", "s">>,
       <<"h", "a", "y", "_", "b", "l", "o", "c", "k", "_", "s", "i", "d", "e">>,
       <<"t", "n", "t">>,
       <<"b", "e", "d">>,
       <<"d", "o", "o", "r", "_", "w", "o", "o", "d">>,
       <<"d", "o", "o", "r", "_", "s", "p", "r", "u", "c", "e">>,
       <<"d", "o", "o", "r", "_", "b", "i", "r", "c", "h">>,
       <<"d", "o", "o", "r", "_", "j", "u", "n", "g", "l", "e">>,
       <<"d", "o", "o", "r", "_", "a", "c", "a", "c", "i", "a">>,
       <<"d", "o", "o", "r", "_", "d", "a", "r", "k", "_", "o", "a", "k">>,
       <<"d", "o", "o", "r", "_", "i", "r", "o", "n">>,
       <<"p", "i", "s", "t", "o", "n">>,
       <<"a", "n", "v", "i", "l">>,
       <<"b", "r", "e", "w", "i", "n", "g", "_", "s", "t", "a", "n", "d">>,
       <<"e", "n", "c", "h", "a", "n", "t", "i", "n", "g", "_", "t", "a", "b", "l", "e">>,
       <<"c", "a", "u", "l", "d", "r", "o", "n">>,
       <<"c", "r", "a", "f", "t", "i", "n", "g", "_", "t", "a", "b", "l", "e">>,
       <<"f", "u", "r", "n", "a", "c", "e">>,
       <<"d", "i", "s", "p", "e", "n", "s", "e", "r">>,
       <<"d", "r", "o", "p", "p", "e", "r">>,
       <<"j", "u", "k", "e", "b", "o", "x">>,
       <<"g", "r", "a", "s", "s">>,
       <<"m", "y", "c", "e", "l", "i", "u", "m">>,
       <<"p", "o", "d", "z", "o", "l">>,
       <<"p", "u", "m", "p", "k", "i", "n">>,
       <<"m", "e", "l", "o", "n">> >>

\* get_texture_prefix, were it to return, when no group matches, the name without
\* its last underscore-delimited token
get_texture_prefix_shortening(texture_name) ==
    LET first   == SplitFirst(texture_name, "_")
        matches == {i \in 1..Len(BLOCK_GROUPS) : StartsWith(BLOCK_GROUPS[i], first)}
    IN  IF matches = {}
        THEN IF RFind(texture_name, "_") = 0 THEN texture_name
             ELSE SubSeq(texture_name, 1, RFind(texture_name, "_") - 1)
        ELSE SplitFirst(BLOCK_GROUPS[CHOOSE i \in matches : \A j \in matches : i <= j], "_")

\* get_texture_prefix(texture_name)
get_texture_prefix(texture_name) ==
    LET first   == SplitFirst(texture_name, "_")
        matches == {i \in 1..Len(BLOCK_GROUPS) : StartsWith(BLOCK_GROUPS[i], first)}
    IN  IF matches = {} THEN texture_name
        ELSE SplitFirst(BLOCK_GROUPS[CHOOSE i \in matches : \A j \in matches : i <= j], "_")

TRANSPARENT == <<0, 0, 0, 0>>

\* What compositing one colour gives: the blended texture, or an exception when the
\* environment makes compositing this colour fail (color_name in faults)
Composite(base_texture, color_name, faults) ==
    IF color_name \in faults THEN [ok |-> FALSE, err |-> "Exception"]
    ELSE blend_texture_with_neon(base_texture, get_color(color_name).val, OPACITY, BLEND_MODE)

\* Where row (from 0) of the colour grid is pasted: x = 0, y = row * cell_height
row_offset(row, cell_height) == <<0, row * cell_height>>

\* The body of the row loop, were it to let the exception of a failed colour escape
grid_row_raising(grid_image, base_texture, row, color_name, faults) ==
    LET blended_texture == Composite(base_texture, color_name, faults)
    IN  IF blended_texture.ok
        THEN [grid |-> Paste(grid_image, blended_texture.val,
                             row_offset(row, base_texture.h)[1],
                             row_offset(row, base_texture.h)[2], blended_texture.val),
              skipped |-> FALSE, raised |-> FALSE]
        ELSE [grid |-> grid_image, skipped |-> FALSE, raised |-> TRUE]

\* The body of the row loop of generate_color_grid: composite, paste at
\* (0, row * cell_height) through the blended texture's own alpha; on any exception
\* warn and continue
grid_row(grid_image, base_texture, row, color_name, faults) ==
    LET blended_texture == Composite(base_texture, color_name, faults)
    IN  IF blended_texture.ok
        THEN [grid |-> Paste(grid_image, blended_texture.val,
                             row_offset(row, base_texture.h)[1],
                             row_offset(row, base_texture.h)[2], blended_texture.val),
              skipped |-> FALSE, raised |-> FALSE]
        ELSE [grid |-> grid_image, skipped |-> TRUE, raised |-> FALSE]

\* The row loop from row on: [grid, skipped, raised], skipped the rows warned about
RECURSIVE grid_rows(_, _, _, _, _, _)
grid_rows(grid_image, base_texture, order, row, faults, skipped) ==
    IF row >= Len(order) THEN [grid |-> grid_image, skipped |-> skipped, raised |-> FALSE]
    ELSE LET r == grid_row(grid_image, base_texture, row, order[row + 1], faults)
         IN  IF r.raised THEN [grid |-> r.grid, skipped |-> skipped, raised |-> TRUE]
             ELSE grid_rows(r.grid, base_texture, order, row + 1, faults,
                            IF r.skipped THEN skipped \cup {row} ELSE skipped)

\* The colour order generate_color_grid draws for texture_name
color_order(texture_name) ==
    random_shuffle(get_color_names, random_seed(get_texture_prefix(texture_name)))[1]

\* generate_color_grid(texture_name), on the file system (fs, ds), the global generator
\* in state rng0, random.seed() leaving it in state reseeded, compositing failing for
\* the colours in faults: [ok, err, grid, order, skipped, rng]
generate_color_grid(fs, ds, rng0, reseeded, faults, texture_name) ==
    LET input_path   == TexturePath(texture_name)
        base_texture == load_image(fs, ds, input_path)
        grid_image   == ImageNew(<<base_texture.val.w,
                                   base_texture.val.h * Len(NEON_COLORS)>>, TRANSPARENT)
        order        == color_order(texture_name)
        rows         == grid_rows(grid_image, base_texture.val, order, 0, faults, {})
        quit(e, g)   == [ok |-> FALSE, err |-> e, grid |-> <<>>, order |-> <<>>,
                         skipped |-> {}, rng |-> g]
    IN  IF input_path \notin DOMAIN fs THEN quit("FileNotFoundError", rng0)
        ELSE IF ~base_texture.ok THEN quit(base_texture.err, rng0)
        ELSE IF rows.raised THEN quit("Exception", reseeded)
        ELSE [ok |-> TRUE, err |-> "none", grid |-> <<rows.grid>>, order |-> order,
              skipped |-> rows.skipped, rng |-> reseeded]

MCMETA_CONTENT == "{\n  \"animation\": {}\n}"

\* No path: the output_path argument left at None
NoPath == InCwd(<<>>)

\* create_mcmeta_file(texture_path): [ok, err, files, space, mcmeta_path]
create_mcmeta_file(fs, sp, texture_path) ==
    LET mcmeta_path == PathPlus(texture_path, EXT_MCMETA)
    IN  IF sp = 0
        THEN [ok |-> FALSE, err |-> "IOError", files |-> fs, space |-> sp,
              mcmeta_path |-> mcmeta_path]
        ELSE [ok |-> TRUE, err |-> "none", files |-> Put(fs, mcmeta_path, TextFile(MCMETA_CONTENT)),
              space |-> sp - 1, mcmeta_path |-> mcmeta_path]

\* process_texture_color_grid leaves with exception e, the file system being (f, d, n)
color_grid_raise(grid_image, e, f, d, n) ==
    [ok |-> FALSE, err |-> e, files |-> f, dirs |-> d, space |-> n,
     rng |-> grid_image.rng, order |-> grid_image.order,
     skipped |-> grid_image.skipped, texture_path |-> NoPath,
     mcmeta_path |-> NoPath, image_path |-> NoPath]

\* process_texture_color_grid after create_mcmeta_file(output_path) ended as mcmeta
color_grid_return(grid_image, saved, mcmeta, output_path) ==
    IF ~mcmeta.ok
    THEN [color_grid_raise(grid_image, mcmeta.err, mcmeta.files, saved.dirs, mcmeta.space)
             EXCEPT !.image_path = saved.path]
    ELSE [ok |-> TRUE, err |-> "none", files |-> mcmeta.files, dirs |-> saved.dirs,
          space |-> mcmeta.space, rng |-> grid_image.rng, order |-> grid_image.order,
          skipped |-> grid_image.skipped, texture_path |-> output_path, mcmeta_path |-> mcmeta.mcmeta_path,
          image_path |-> saved.path]

\* process_texture_color_grid after save_image, were the sidecar to be written
\* whether or not the image was saved
color_grid_sidecar_regardless(grid_image, saved, output_path) ==
    IF ~saved.ok
    THEN color_grid_raise(grid_image, saved.err,
                          Put(saved.files, PathPlus(output_path, EXT_MCMETA),
                              TextFile(MCMETA_CONTENT)),
                          saved.dirs \cup {Dirname(output_path)}, saved.space)
    ELSE color_grid_return(grid_image, saved,
                           create_mcmeta_file(saved.files, saved.space, output_path),
                           output_path)

\* process_texture_color_grid after save_image(grid_image, output_path) ended as saved
color_grid_sidecar(grid_image, saved, output_path) ==
    IF ~saved.ok
    THEN color_grid_raise(grid_image, saved.err, saved.files, saved.dirs, saved.space)
    ELSE color_grid_return(grid_image, saved,
                           create_mcmeta_file(saved.files, saved.space, output_path),
                           output_path)

\* process_texture_color_grid after generate_color_grid, were the output directory
\* to be made before the outcome of generate_color_grid is looked at
color_grid_save_mkdir_first(fs, ds, sp, grid_image, output_path) ==
    IF ~grid_image.ok
    THEN color_grid_raise(grid_image, grid_image.err, fs,
                          ds \cup {Dirname(output_path)}, sp)
    ELSE color_grid_sidecar(grid_image,
                            save_image(fs, ds, sp, grid_image.grid[1], output_path),
                            output_path)

\* process_texture_color_grid after generate_color_grid(texture_name) ended as grid_image
color_grid_save(fs, ds, sp, grid_image, output_path) ==
    IF ~grid_image.ok THEN color_grid_raise(grid_image, grid_image.err, fs, ds, sp)
    ELSE color_grid_sidecar(grid_image,
                            save_image(fs, ds, sp, grid_image.grid[1], output_path),
                            output_path)

\* process_texture_color_grid(texture_name, output_path):
\* [ok, err, files, dirs, space, rng, order, skipped, texture_path, mcmeta_path,
\* image_path], (texture_path, mcmeta_path) the pair returned, image_path the file
\* save_image wrote and skipped the rows generate_color_grid printed a warning for
process_texture_color_grid(fs, ds, sp, rng0, reseeded, faults, texture_name, output_path) ==
    color_grid_save(fs, ds, sp,
                    generate_color_grid(fs, ds, rng0, reseeded, faults, texture_name),
                    IF output_path = NoPath
                    THEN PathJoin(OUTPUT_BASE_PATH, texture_name \o EXT_PNG)
                    ELSE output_path)

-----------------------------------------------------------------------------
(* The per-colour grid of one texture *)

\* Compositing fails for at most MaxFaults colours of a grid.
MaxFaults == 1

FaultSets == {f \in SUBSET ColorNameSet : Cardinality(f) <= MaxFaults}

\* One call of generate_color_grid(texture_name).
GenerateColorGrid(texture_name, faults, reseeded) ==
    /\ \E r \in {generate_color_grid(files, dirs, rng, reseeded, faults, texture_name)} :
           /\ rng' = r.rng
           /\ seen' = IF r.ok THEN seen \cup {[name |-> texture_name, order |-> r.order]}
                      ELSE seen
           /\ ret' = [op |-> "generate_color_grid", texture_name |-> texture_name,
                      faults |-> faults, outcome |-> IF r.ok THEN "ok" ELSE r.err,
                      grid |-> r.grid, order |-> r.order, warned |-> r.skipped,
                      rng_before |-> rng]
    /\ UNCHANGED <<files, dirs, space, draws, pc, batch>>

\* The process draws a random number for a purpose of its own.
DrawRandom ==
    /\ draws < MaxDraws
    /\ rng' = Advance(rng)
    /\ draws' = draws + 1
    /\ UNCHANGED <<files, dirs, space, seen, pc, batch, ret>>

InitGrid ==
    /\ \E image \in Images : files = SourceTree(image)
    /\ dirs = {INPUT_BASE_PATH}
    /\ space = 0
    /\ rng = Entropy(1)
    /\ draws = 0
    /\ seen = {}
    /\ pc = "ready"
    /\ batch = NoBatch
    /\ ret = [op |-> "none"]

\* One grid is built, from the file system the process starts with.
NextGrid ==
    /\ ret.op = "none"
    /\ \E texture_name \in {STONE, GONE}, faults \in FaultSets, reseeded \in EntropyStates :
            GenerateColorGrid(texture_name, faults, reseeded)

SpecGrid == InitGrid /\ [][NextGrid]_vars

\* The source image of the grid ret describes
GridSource == files[TexturePath(ret.texture_name)].data

\* Row i (from 0) of the grid ret describes: the region [i*H, (i+1)*H) of the canvas
GridRegion(i) == Crop(ret.grid[1], 0, i * GridSource.h, GridSource.w, GridSource.h)

\* blend_texture_with_neon(source, colour of row i, 0.6, 'overlay')
RowComposite(i) ==
    blend_texture_with_neon(GridSource, get_color(ret.order[i + 1]).val, OPACITY, BLEND_MODE).val

GridBuilt == ret.op = "generate_color_grid" /\ ret.outcome = "ok"

\* C2: the grid of a W x H source is W x (H * 10), and row i of it is pixel for pixel
\* blend_texture_with_neon(source, colorOrder[i], 0.6, 'overlay'), for every source,
\* those with partially transparent pixels included (no colour failing).
C2_RowsEqualComposite ==
    (GridBuilt /\ ret.faults = {})
        => /\ ret.grid[1].w = GridSource.w
           /\ ret.grid[1].h = GridSource.h * 10
           /\ Len(ret.grid[1].px) = GridSource.w * GridSource.h * 10
           /\ \A i \in 0..9 : GridRegion(i) = RowComposite(i)

\* C10: a colour whose compositing fails costs only its own row: that row of the
\* canvas stays transparent, every other row is the composite pasted at its own
\* offset, the canvas keeps its size and the grid is returned.
C10_FailedRowSkipped ==
    (ret.op = "generate_color_grid" /\ TexturePath(ret.texture_name) \in DOMAIN files)
        => /\ ret.outcome = "ok"
           /\ ret.grid[1].w = GridSource.w
           /\ ret.grid[1].h = GridSource.h * 10
           /\ Len(ret.grid[1].px) = GridSource.w * GridSource.h * 10
           /\ \A i \in 0..9 :
                IF ret.order[i + 1] \in ret.faults
                THEN GridRegion(i) = ImageNew(<<GridSource.w, GridSource.h>>, TRANSPARENT)
                ELSE GridRegion(i) =
                        Paste(ImageNew(<<GridSource.w, GridSource.h>>, TRANSPARENT),
                              RowComposite(i), 0, 0, RowComposite(i))

C10_Witness ==
    /\ GridBuilt
    /\ ret.faults # {}
    /\ GridSource.h = 2
    /\ \E i \in 1..9 : ret.order[i + 1] \in ret.faults
    /\ \E i \in 0..9 : GridRegion(i) # ImageNew(<<GridSource.w, GridSource.h>>, TRANSPARENT)

-----------------------------------------------------------------------------
(* The colour orders of several textures in one process *)

OrderNames == {<<"l", "o", "g", "_", "o", "a", "k">>,
               <<"l", "o", "g", "_", "b", "i", "r", "c", "h">>,
               <<"s", "t", "o", "n", "e", "_", "a">>,
               <<"s", "t", "o", "n", "e", "_", "b">>}

InitOrder ==
    /\ files = [p \in {TexturePath(n) : n \in OrderNames} |->
                    PngFile(ImageNew(<<1, 1>>, <<200, 30, 60, 255>>))]
    /\ dirs = {INPUT_BASE_PATH}
    /\ space = 0
    /\ rng \in EntropyStates
    /\ draws = 0
    /\ seen = {}
    /\ pc = "ready"
    /\ batch = NoBatch
    /\ ret = [op |-> "none"]

\* Two grids are built, with random draws of the process before, between and after.
NextOrder ==
    \/ /\ Cardinality(seen) < 2
       /\ \E texture_name \in OrderNames \cup {GONE}, reseeded \in EntropyStates :
             GenerateColorGrid(texture_name, {}, reseeded)
    \/ DrawRandom

SpecOrder == InitOrder /\ [][NextOrder]_vars

\* C3: two texture names with the same first underscore-delimited token get the
\* same colour order, whatever was called or drawn in between.
C3_SamePrefixSameOrder ==
    \A a \in seen, b \in seen :
        SplitFirst(a.name, "_") = SplitFirst(b.name, "_") => a.order = b.order

\* C4: generate_color_grid leaves the global generator in the state it found it in.
C4_RandomStateRestored ==
    GridBuilt => rng = ret.rng_before

\* order assigns every colour of the palette to exactly one of the rows 0..9
IsPalettePermutation(order) ==
    /\ Len(order) = 10
    /\ Len(NEON_COLORS) = 10
    /\ \A name \in ColorNameSet :
          Cardinality({row \in 0..(Len(order) - 1) : order[row + 1] = name}) = 1
    /\ \A row \in 0..(Len(order) - 1) : order[row + 1] \in ColorNameSet

\* C20: the colour order generate_color_grid uses is a permutation of the 10 palette
\* names, for every texture name and every state the random generator was in before:
\* each colour is on exactly one row and each row 0..9 has exactly one colour.
C20_OrderIsPermutation ==
    /\ \A a \in seen : IsPalettePermutation(a.order)
    /\ GridBuilt => IsPalettePermutation(ret.order)

C20_Witness ==
    /\ GridBuilt
    /\ ret.order # get_color_names
    /\ draws > 0
    /\ \E a \in seen : a.order # ret.order

-----------------------------------------------------------------------------
(* Saving: one grid written to a requested path *)

\* Requested output paths: .png, .jpg and .jpeg, upper-case extensions, another
\* extension and none, below the output tree; and bare file names
OutputPaths ==
    {PathJoin(OUTPUT_BASE_PATH, <<"o", "u", "t">> \o e) :
        e \in {EXT_PNG, EXT_JPG, EXT_JPEG, <<".", "P", "N", "G">>, <<".", "J", "P", "G">>,
               <<".", "t", "g", "a">>, <<>>}}
    \cup {InCwd(<<"g", "r", "i", "d", ".", "t", "g", "a">>),
          InCwd(<<"g", "r", "i", "d", ".", "p", "n", "g">>)}

\* One call of process_texture_color_grid(texture_name, output_path).
ProcessTextureColorGrid(texture_name, output_path, faults, reseeded) ==
    /\ \E r \in {process_texture_color_grid(files, dirs, space, rng, reseeded, faults,
                                               texture_name, output_path)} :
           /\ files' = r.files
           /\ dirs' = r.dirs
           /\ space' = r.space
           /\ rng' = r.rng
           /\ seen' = IF r.order # <<>>
                      THEN seen \cup {[name |-> texture_name, order |-> r.order,
                                       returned |-> IF r.ok
                                                    THEN <<r.texture_path, r.mcmeta_path>>
                                                    ELSE <<r.err>>,
                                       warned |-> r.skipped]}
                      ELSE seen
           /\ ret' = [op |-> "process_texture_color_grid", texture_name |-> texture_name,
                      output_path |-> output_path, outcome |-> IF r.ok THEN "ok" ELSE r.err,
                      texture_path |-> r.texture_path, mcmeta_path |-> r.mcmeta_path,
                      image_path |-> r.image_path, warned |-> r.skipped]
    /\ UNCHANGED <<draws, pc, batch>>

\* A caller saves the texture it has loaded from input_path to output_path.
SaveImage(input_path, output_path) ==
    /\ load_image(files, dirs, input_path).ok
    /\ \E r \in {save_image(files, dirs, space, load_image(files, dirs, input_path).val,
                               output_path)} :
           /\ files' = r.files
           /\ dirs' = r.dirs
           /\ space' = r.space
           /\ ret' = [op |-> "save_image", output_path |-> output_path,
                      outcome |-> IF r.ok THEN "ok" ELSE r.err,
                      path |-> r.path, format |-> r.format]
    /\ UNCHANGED <<rng, draws, seen, pc, batch>>

InitSave ==
    /\ \E image \in Images : files = SourceTree(image)
    /\ dirs = {INPUT_BASE_PATH}
    /\ space \in {0, 1, 2}
    /\ rng = Entropy(1)
    /\ draws = 0
    /\ seen = {}
    /\ pc = "ready"
    /\ batch = NoBatch
    /\ ret = [op |-> "none"]

\* One file is saved, from the file system the process starts with.
NextSave ==
    /\ ret.op = "none"
    /\ \/ \E texture_name \in {STONE, GONE}, output_path \in OutputPaths \cup {NoPath} :
             ProcessTextureColorGrid(texture_name, output_path, {}, Entropy(1))
       \/ \E output_path \in OutputPaths : SaveImage(TexturePath(STONE), output_path)

SpecSave == InitSave /\ [][NextSave]_vars

\* The path process_texture_color_grid saves to: output_path, or the default
RequestedPath ==
    IF ret.output_path = NoPath
    THEN PathJoin(OUTPUT_BASE_PATH, ret.texture_name \o EXT_PNG)
    ELSE ret.output_path

\* C7: after process_texture_color_grid, for every output path, the sidecar is
\* '<saved image file>.mcmeta', the saved image file is '<output-stem>.png', and the
\* texture path returned is the path of that image file.
C7_SidecarPairedWithImage ==
    (ret.op = "process_texture_color_grid" /\ ret.outcome = "ok")
        => /\ ret.image_path \in DOMAIN files
           /\ ret.mcmeta_path \in DOMAIN files
           /\ ret.mcmeta_path = PathPlus(ret.image_path, EXT_MCMETA)
           /\ ret.image_path = PathPlus(Splitext(RequestedPath)[1], EXT_PNG)
           /\ ret.texture_path = ret.image_path

\* The extension save_image decides by
RequestedExt == Lower(Splitext(ret.output_path)[2])

\* C8 as claimed: save_image always writes a PNG file whose name ends in '.png',
\* whatever the extension requested, .jpg and .jpeg included.
C8_AlwaysPng ==
    (ret.op = "save_image" /\ ret.outcome = "ok")
        => /\ ret.format = "PNG"
           /\ files[ret.path].format = "PNG"
           /\ EndsWith(Lower(ret.path.name), EXT_PNG)

\* C8 as amended: save_image writes a JPEG at the requested path when the extension,
\* lower-cased, is .jpg or .jpeg; otherwise it writes a PNG, at the requested path
\* when the lower-cased extension is .png and else at the path with the extension
\* replaced by '.png'.
C8_PngUnlessJpeg ==
    (ret.op = "save_image" /\ ret.outcome = "ok")
        => /\ ret.path \in DOMAIN files
           /\ files[ret.path].format = ret.format
           /\ IF RequestedExt \in {EXT_JPG, EXT_JPEG}
              THEN ret.format = "JPEG" /\ ret.path = ret.output_path
              ELSE /\ ret.format = "PNG"
                   /\ Lower(Splitext(ret.path)[2]) = EXT_PNG
                   /\ RequestedExt = EXT_PNG => ret.path = ret.output_path
                   /\ RequestedExt # EXT_PNG
                        => ret.path = PathPlus(Splitext(ret.output_path)[1], EXT_PNG)

C8_Witness ==
    /\ ret.op = "save_image"
    /\ ret.outcome = "ok"
    /\ RequestedExt = EXT_JPG
    /\ ret.output_path.name # Lower(ret.output_path.name)
    /\ files[ret.path].format = "JPEG"

-----------------------------------------------------------------------------
(* batch_color_grid_generator.py: batch_process_textures *)

\* A batch is given at most MaxBatch textures.
MaxBatch == 3

\* The disk has room for at most MaxSpace more files.
MaxSpace == 3

BAD == <<"b", "a", "d">>

\* The body of the loop, were a failure to end the loop (break instead of continue)
batch_iteration_stopping(b, texture_name, r) ==
    IF r.ok
    THEN [b EXCEPT !.i = @ + 1, !.success_count = @ + 1]
    ELSE [b EXCEPT !.i = Len(b.textures),
                   !.failed_textures = Append(@, <<texture_name, r.err>>)]

\* The body of the loop of batch_process_textures, r what
\* process_texture_color_grid(texture_name) returned or raised: the locals after it
batch_iteration(b, texture_name, r) ==
    IF r.ok
    THEN [b EXCEPT !.i = @ + 1, !.success_count = @ + 1]
    ELSE [b EXCEPT !.i = @ + 1, !.failed_textures = Append(@, <<texture_name, r.err>>)]

\* batch_process_textures(textures) is entered.
BatchStart(textures) ==
    /\ pc = "ready"
    /\ pc' = "loop"
    /\ batch' = [textures |-> textures, i |-> 0, success_count |-> 0,
                 failed_textures |-> <<>>, attempted |-> <<>>]
    /\ UNCHANGED <<files, dirs, space, rng, draws, seen, ret>>

\* One iteration of the loop: the next texture is processed.  attempted logs the
\* calls of process_texture_color_grid and how each ended.
BatchIterate(reseeded) ==
    /\ pc = "loop"
    /\ batch.i < Len(batch.textures)
    /\ \E texture_name \in {batch.textures[batch.i + 1]} :
       \E r \in {process_texture_color_grid(files, dirs, space, rng, reseeded, {},
                                            texture_name, NoPath)} :
           /\ files' = r.files
           /\ dirs' = r.dirs
           /\ space' = r.space
           /\ rng' = r.rng
           /\ batch' = [batch_iteration(batch, texture_name, r) EXCEPT
                           !.attempted = Append(@, [name |-> texture_name,
                                                    outcome |-> IF r.ok THEN "ok" ELSE r.err,
                                                    image_path |-> r.image_path,
                                                    mcmeta_path |-> r.mcmeta_path])]
    /\ UNCHANGED <<draws, seen, pc, ret>>

\* The loop is over: the summary is printed.
BatchSummary ==
    /\ pc = "loop"
    /\ batch.i >= Len(batch.textures)
    /\ pc' = "done"
    /\ ret' = [op |-> "batch_process_textures", total_count |-> Len(batch.textures),
               successful |-> batch.success_count, failed |-> batch.failed_textures]
    /\ UNCHANGED <<files, dirs, space, rng, draws, seen, batch>>

BatchNames == {STONE, BAD, GONE}

BatchInputs == UNION {[1..n -> BatchNames] : n \in 0..MaxBatch}

\* The source directory of a batch: a texture, a file that is no image, and (GONE)
\* a name with no file
InitBatch ==
    /\ files = (TexturePath(STONE) :> PngFile(ImageNew(<<1, 1>>, <<200, 30, 60, 255>>)))
                  @@ (TexturePath(BAD) :> CorruptFile)
    /\ dirs = {INPUT_BASE_PATH}
    /\ space \in 0..MaxSpace
    /\ rng = Entropy(1)
    /\ draws = 0
    /\ seen = {}
    /\ pc = "ready"
    /\ batch = NoBatch
    /\ ret = [op |-> "none"]

NextBatch ==
    \/ \E textures \in BatchInputs : BatchStart(textures)
    \/ BatchIterate(Entropy(1))
    \/ BatchSummary

SpecBatch == InitBatch /\ [][NextBatch]_vars

\* The attempts that failed, as batch_process_textures is to record them
FailedAttempts ==
    LET bad == SelectSeq(batch.attempted, LAMBDA a : a.outcome # "ok")
    IN  [k \in 1..Len(bad) |-> <<bad[k].name, bad[k].outcome>>]

\* C5: batch_process_textures attempts every texture exactly once, in list order, one
\* after the other; a failure does not end the loop; successes plus recorded failures
\* number the textures, and every failure is recorded once, with its reason.
C5_BatchAttemptsAll ==
    (pc \in {"loop", "done"})
        => /\ batch.i <= Len(batch.textures)
           /\ [k \in 1..Len(batch.attempted) |-> batch.attempted[k].name]
                 = SubSeq(batch.textures, 1, batch.i)
           /\ batch.success_count = Len(SelectSeq(batch.attempted, LAMBDA a : a.outcome = "ok"))
           /\ batch.failed_textures = FailedAttempts
           /\ batch.success_count + Len(batch.failed_textures) = batch.i
           /\ pc = "done"
                => /\ batch.i = Len(batch.textures)
                   /\ ret.successful + Len(ret.failed) = ret.total_count
                   /\ ret.total_count = Len(batch.textures)

C5_Witness ==
    /\ pc = "done"
    /\ Len(batch.textures) = 3
    /\ batch.attempted[1].outcome = "FileNotFoundError"
    /\ batch.attempted[2].outcome = "ok"
    /\ batch.attempted[3].outcome = "IOError"
    /\ ret.successful = 1
    /\ Len(ret.failed) = 2

\* The sidecars in the output directory
OutputSidecars ==
    {p \in DOMAIN files : p.dir = OUTPUT_BASE_PATH /\ EndsWith(p.name, EXT_MCMETA)}

\* The attempt wrote its image, and wrote its sidecar
WroteImage(a) == a.image_path # NoPath
WroteSidecar(a) == a.mcmeta_path # NoPath

\* C21: in the batch, an invocation of the colour-grid pipeline writes the sidecar
\* only after it has saved the image the sidecar belongs to; a texture is counted as
\* successful only if the invocation wrote both its image and its sidecar; and every
\* sidecar in the output directory holds the literal animation text and was written
\* by an invocation that saved the image, which is there as a PNG file.
C21_SidecarOnlyAfterImage ==
    (pc \in {"loop", "done"})
        => /\ \A k \in 1..Len(batch.attempted) :
                 /\ WroteSidecar(batch.attempted[k])
                       => /\ WroteImage(batch.attempted[k])
                          /\ batch.attempted[k].mcmeta_path
                                = PathPlus(batch.attempted[k].image_path, EXT_MCMETA)
                 /\ batch.attempted[k].outcome = "ok"
                       => (WroteImage(batch.attempted[k]) /\ WroteSidecar(batch.attempted[k]))
           /\ batch.success_count
                 <= Len(SelectSeq(batch.attempted,
                                  LAMBDA a : WroteImage(a) /\ WroteSidecar(a)))
           /\ \A p \in OutputSidecars :
                 /\ files[p] = TextFile(MCMETA_CONTENT)
                 /\ \E k \in 1..Len(batch.attempted) :
                       /\ batch.attempted[k].mcmeta_path = p
                       /\ batch.attempted[k].image_path \in DOMAIN files
                       /\ files[batch.attempted[k].image_path].format = "PNG"

C21_Witness ==
    /\ pc = "done"
    /\ \E k \in 1..Len(batch.attempted) :
          WroteImage(batch.attempted[k]) /\ ~WroteSidecar(batch.attempted[k])
    /\ \E k \in 1..Len(batch.attempted) : batch.attempted[k].outcome = "ok"
    /\ \E k \in 1..Len(batch.attempted) :
          batch.attempted[k].outcome = "IOError" /\ ~WroteImage(batch.attempted[k])
    /\ OutputSidecars # {}

-----------------------------------------------------------------------------
(* Runs of process_texture_color_grid on one texture, with and without rows skipped *)

RED == <<"r", "e", "d">>

\* The texture is processed up to two times, compositing failing for no colour or
\* for one.
InitReport ==
    /\ \E image \in Images : files = SourceTree(image)
    /\ dirs = {INPUT_BASE_PATH}
    /\ space = 2 * MaxSpace
    /\ rng = Entropy(1)
    /\ draws = 0
    /\ seen = {}
    /\ pc = "ready"
    /\ batch = NoBatch
    /\ ret = [op |-> "none"]

NextReport ==
    /\ Cardinality(seen) < 2
    /\ \E output_path \in {NoPath, InCwd(<<"g", "r", "i", "d", ".", "p", "n", "g">>)},
          faults \in {{}, {RED}, {get_color_names[1]}} :
            ProcessTextureColorGrid(STONE, output_path, faults, Entropy(1))

SpecReport == InitReport /\ [][NextReport]_vars

\* C11: the rows skipped are reported to the caller: what a run returns tells which
\* rows it skipped, so two runs that return the same value skipped the same rows.
C11_SkippedRowsReported ==
    \A a \in seen, b \in seen :
        (a.name = b.name /\ a.returned = b.returned) => a.warned = b.warned

-----------------------------------------------------------------------------
(* texture_grid_generator.py.  The canvas is kept as its size, its fill and the list
   of the images pasted onto it, in order. *)

OPACITY_LEVELS == [k \in 1..9 |-> <<k, 10>>]
SCALE_FACTOR == 8
CELL_PADDING == 4
LABEL_HEIGHT == 20

\* BLEND_MODES of texture_grid_generator.py: the modes of the rows, top to bottom
GRID_ROWS == <<SCREEN, OVERLAY, MULTIPLY, NORMAL>>

\* scale_image_nearest, were it to leave the image at its size
scale_image_same_size(image, scale_factor) == image

\* scale_image_nearest(image, scale_factor): every pixel becomes a square of
\* scale_factor x scale_factor pixels
scale_image_nearest(image, scale_factor) ==
    [w |-> image.w * scale_factor, h |-> image.h * scale_factor,
     px |-> [i \in 1..(image.w * scale_factor * image.h * scale_factor) |->
                PixelAt(image, ((i - 1) % (image.w * scale_factor)) \div scale_factor,
                               ((i - 1) \div (image.w * scale_factor)) \div scale_factor)]]

\* create_text_label(text, width, height): a width x height label showing text
create_text_label(text, width, height) == [text |-> text, w |-> width, h |-> height]

\* f"{opacity:.1f}" for an opacity of n tenths, 0 <= n < 100
FormatTenths(opacity) ==
    <<(<<"0", "1", "2", "3", "4", "5", "6", "7", "8", "9">>)[(opacity[1] \div 10) + 1], ".",
      (<<"0", "1", "2", "3", "4", "5", "6", "7", "8", "9">>)[(opacity[1] % 10) + 1]>>

\* The paste of the label of column col
column_label(col, cell_width) ==
    [kind |-> "column_label", row |-> 0, col |-> col,
     x |-> 100 + col * (cell_width + CELL_PADDING) + CELL_PADDING + (cell_width \div 2) - 20,
     y |-> 5,
     image |-> create_text_label(FormatTenths(OPACITY_LEVELS[col + 1]), 40, LABEL_HEIGHT)]

\* The paste of the label of row row
row_label(row, cell_height) ==
    [kind |-> "row_label", row |-> row, col |-> 0,
     x |-> 5,
     y |-> LABEL_HEIGHT + 30 + row * (cell_height + CELL_PADDING) + CELL_PADDING
              + (cell_height \div 2) - 10,
     image |-> create_text_label(GRID_ROWS[row + 1], 90, 20)]

\* The paste of cell (row, col), were the columns to be CELL_PADDING apart
grid_cell_paste_crowded(blended, row, col, cell_width, cell_height) ==
    IF ~blended.ok THEN <<>>
    ELSE <<[kind |-> "cell", row |-> row, col |-> col,
            x |-> 100 + col * CELL_PADDING + CELL_PADDING,
            y |-> LABEL_HEIGHT + 30 + row * (cell_height + CELL_PADDING) + CELL_PADDING,
            image |-> scale_image_nearest(blended.val, SCALE_FACTOR)]>>

\* The paste of cell (row, col), blended what blend_texture_with_neon gave for it
grid_cell_paste(blended, row, col, cell_width, cell_height) ==
    IF ~blended.ok THEN <<>>
    ELSE <<[kind |-> "cell", row |-> row, col |-> col,
            x |-> 100 + col * (cell_width + CELL_PADDING) + CELL_PADDING,
            y |-> LABEL_HEIGHT + 30 + row * (cell_height + CELL_PADDING) + CELL_PADDING,
            image |-> scale_image_nearest(blended.val, SCALE_FACTOR)]>>

\* The body of the inner loop: the pastes of cell (row, col), none when compositing
\* raises (the cell is in faults) and the loop warns and continues
grid_cell(base_texture, neon_color, row, col, cell_width, cell_height, faults) ==
    grid_cell_paste(IF <<row, col>> \in faults THEN [ok |-> FALSE, err |-> "Exception"]
                    ELSE blend_texture_with_neon(base_texture, neon_color,
                                                 OPACITY_LEVELS[col + 1], GRID_ROWS[row + 1]),
                    row, col, cell_width, cell_height)

\* The pastes of the cells of row from column col on
RECURSIVE grid_row_cells(_, _, _, _, _, _, _)
grid_row_cells(base_texture, neon_color, row, col, cell_width, cell_height, faults) ==
    IF col >= Len(OPACITY_LEVELS) THEN <<>>
    ELSE grid_cell(base_texture, neon_color, row, col, cell_width, cell_height, faults)
            \o grid_row_cells(base_texture, neon_color, row, col + 1, cell_width,
                              cell_height, faults)

\* The pastes of the outer loop from row on: the row's label, then its cells
RECURSIVE grid_cells(_, _, _, _, _, _)
grid_cells(base_texture, neon_color, row, cell_width, cell_height, faults) ==
    IF row >= Len(GRID_ROWS) THEN <<>>
    ELSE <<row_label(row, cell_height)>>
            \o grid_row_cells(base_texture, neon_color, row, 0, cell_width, cell_height, faults)
            \o grid_cells(base_texture, neon_color, row + 1, cell_width, cell_height, faults)

\* generate_texture_grid once the texture is loaded and scaled to the cell size
texture_grid_canvas(base_texture, neon_color, cell_width, cell_height, faults) ==
    [w |-> (cell_width + CELL_PADDING) * Len(OPACITY_LEVELS) + CELL_PADDING + 100,
     h |-> (cell_height + CELL_PADDING) * Len(GRID_ROWS) + CELL_PADDING + LABEL_HEIGHT + 30,
     fill |-> <<20, 20, 20, 255>>,
     pastes |-> [col \in 1..Len(OPACITY_LEVELS) |-> column_label(col - 1, cell_width)]
                   \o grid_cells(base_texture, neon_color, 0, cell_width, cell_height, faults)]

\* generate_texture_grid once the texture is loaded
texture_grid_scaled(base_texture, scaled_texture, neon_color, faults) ==
    texture_grid_canvas(base_texture, neon_color, scaled_texture.w, scaled_texture.h, faults)

\* generate_texture_grid(texture_name, color_name), compositing failing for the cells
\* in faults: [ok, err, grid], grid the canvas returned
generate_texture_grid(fs, ds, faults, texture_name, color_name) ==
    IF TexturePath(texture_name) \notin DOMAIN fs
    THEN [ok |-> FALSE, err |-> "FileNotFoundError", grid |-> <<>>]
    ELSE IF Lower(color_name) \notin ColorNameSet
    THEN [ok |-> FALSE, err |-> "ValueError", grid |-> <<>>]
    ELSE IF ~load_image(fs, ds, TexturePath(texture_name)).ok
    THEN [ok |-> FALSE, err |-> load_image(fs, ds, TexturePath(texture_name)).err,
          grid |-> <<>>]
    ELSE [ok |-> TRUE, err |-> "none",
          grid |-> <<texture_grid_scaled(
                        load_image(fs, ds, TexturePath(texture_name)).val,
                        scale_image_nearest(load_image(fs, ds, TexturePath(texture_name)).val,
                                            SCALE_FACTOR),
                        get_color(color_name).val, faults)>>]

-----------------------------------------------------------------------------
(* batch_color_grid_generator.py: the scan of the source directory *)

\* The source directory holds at most MaxFiles files.
MaxFiles == 3

\* a < b, as Python orders strings
StrLess(a, b) ==
    LET n    == IF Len(a) < Len(b) THEN Len(a) ELSE Len(b)
        diff == {i \in 1..n : a[i] # b[i]}
    IN  IF diff = {} THEN Len(a) < Len(b)
        ELSE LET k == CHOOSE i \in diff : \A j \in diff : i <= j
             IN  CharCode(a[k]) < CharCode(b[k])

\* sorted(x), x a collection of strings given as a set of (string, tag) pairs
RECURSIVE Sorted(_)
Sorted(S) ==
    IF S = {} THEN <<>>
    ELSE LET m == CHOOSE x \in S : \A y \in S : ~StrLess(y[1], x[1])
         IN  <<m[1]>> \o Sorted(S \ {m})

\* The names of the files of directory dir that match "*" + suffix
Glob(fs, dir, suffix) == {p.name : p \in {q \in DOMAIN fs : q.dir = dir /\ EndsWith(q.name, suffix)}}

\* PurePath(name).stem: name without its last suffix
Stem(name) ==
    LET dot == RFind(name, ".")
    IN  IF 1 < dot /\ dot < Len(name) THEN SubSeq(name, 1, dot - 1) ELSE name

\* s.replace(old, new): every occurrence, left to right
RECURSIVE Replace(_, _, _)
Replace(s, old, new) ==
    IF Len(s) < Len(old) \/ Len(s) = 0 THEN s
    ELSE IF StartsWith(s, old)
         THEN new \o Replace(SubSeq(s, Len(old) + 1, Len(s)), old, new)
         ELSE <<s[1]>> \o Replace(Tail(s), old, new)

\* get_all_png_files(): [ok, err, val], val the sorted list of stems
get_all_png_files(fs, ds) ==
    IF INPUT_BASE_PATH \notin ds THEN [ok |-> FALSE, err |-> "FileNotFoundError", val |-> <<>>]
    ELSE [ok |-> TRUE, err |-> "none",
          val |-> Sorted({<<Stem(n), n>> : n \in Glob(fs, INPUT_BASE_PATH, EXT_PNG)})]

\* get_existing_mcmeta_textures()
get_existing_mcmeta_textures(fs, ds) ==
    {Replace(n, EXT_PNG \o EXT_MCMETA, <<>>) : n \in Glob(fs, INPUT_BASE_PATH, EXT_MCMETA)}

\* get_textures_to_process(): [ok, err, val]
get_textures_to_process(fs, ds) ==
    LET all_textures    == get_all_png_files(fs, ds)
        existing_mcmeta == get_existing_mcmeta_textures(fs, ds)
    IN  IF ~all_textures.ok THEN all_textures
        ELSE [all_textures EXCEPT
                !.val = SelectSeq(@, LAMBDA texture : texture \notin existing_mcmeta)]

\* One call of get_textures_to_process().
GetTexturesToProcess ==
    /\ \E r \in {get_textures_to_process(files, dirs)} :
           ret' = [op |-> "get_textures_to_process",
                   outcome |-> IF r.ok THEN "ok" ELSE r.err, textures |-> r.val]
    /\ UNCHANGED <<files, dirs, space, rng, draws, seen, pc, batch>>

\* The file names a source directory is made of: textures with and without a
\* sidecar, and files whose names hold the two extensions elsewhere
ScanNames ==
    {<<"a", ".", "p", "n", "g">>,
     <<"a", ".", "p", "n", "g", ".", "m", "c", "m", "e", "t", "a">>,
     <<"b", ".", "p", "n", "g">>,
     <<"b", ".", "p", "n", "g", ".", "m", "c", "m", "e", "t", "a">>,
     <<"b", ".", "m", "c", "m", "e", "t", "a">>,
     <<"b", ".", "m", "c", "m", "e", "t", "a", ".", "p", "n", "g">>,
     <<"a", ".", "t", "x", "t">>}

ScanFile(n) ==
    IF EndsWith(n, EXT_PNG) THEN PngFile(ImageNew(<<1, 1>>, <<200, 30, 60, 255>>))
    ELSE TextFile(MCMETA_CONTENT)

InitScan ==
    /\ \E S \in SUBSET ScanNames :
          /\ Cardinality(S) <= MaxFiles
          /\ files = [p \in {PathJoin(INPUT_BASE_PATH, n) : n \in S} |-> ScanFile(p.name)]
          /\ dirs \in IF S = {} THEN {{}, {INPUT_BASE_PATH}} ELSE {{INPUT_BASE_PATH}}
    /\ space = 0
    /\ rng = Entropy(1)
    /\ draws = 0
    /\ seen = {}
    /\ pc = "ready"
    /\ batch = NoBatch
    /\ ret = [op |-> "none"]

NextScan == GetTexturesToProcess

SpecScan == InitScan /\ [][NextScan]_vars

\* The names of the files of the source directory
SourceNames == {p.name : p \in {q \in DOMAIN files : q.dir = INPUT_BASE_PATH}}

\* C6: get_textures_to_process returns exactly the stems of the PNG files of the
\* source directory that have no '<name>.png.mcmeta' next to them, each once, sorted.
C6_ExactlyTexturesWithoutSidecar ==
    (ret.op = "get_textures_to_process" /\ ret.outcome = "ok")
        => /\ \A n \in SourceNames :
                EndsWith(n, EXT_PNG)
                    => ((\E k \in 1..Len(ret.textures) : ret.textures[k] = Stem(n))
                            <=> (n \o EXT_MCMETA) \notin SourceNames)
           /\ \A k \in 1..Len(ret.textures) :
                \E n \in SourceNames : EndsWith(n, EXT_PNG) /\ Stem(n) = ret.textures[k]
           /\ \A k \in 1..(Len(ret.textures) - 1) :
                StrLess(ret.textures[k], ret.textures[k + 1])

-----------------------------------------------------------------------------
(* texture_blend_generator.py *)

BLEND_MODES == <<SCREEN, OVERLAY, MULTIPLY, NORMAL>>

\* The parameters of process_texture_with_neon
PROCESS_TEXTURE_PARAMS ==
    {"input_path", "output_path", "neon_color", "opacity", "blend_mode", "quality"}

Digits == <<"0", "1", "2", "3", "4", "5", "6", "7", "8", "9">>

\* f"{opacity}" for an opacity of n tenths with a one-digit integer part: the repr
\* of the float
FormatOpacity(opacity) ==
    LET n == IF opacity[1] < 0 THEN 0 - opacity[1] ELSE opacity[1]
    IN  (IF opacity[1] < 0 THEN <<"-">> ELSE <<>>)
            \o <<Digits[(n \div 10) + 1], ".", Digits[(n % 10) + 1]>>

\* process_texture_with_neon(**kwargs): Python binds the keywords to the parameters,
\* raising TypeError for a keyword that is no parameter or a required one missing
call_process_texture_with_neon(fs, ds, sp, kwargs) ==
    IF ~(DOMAIN kwargs \subseteq PROCESS_TEXTURE_PARAMS)
          \/ ~({"input_path", "output_path"} \subseteq DOMAIN kwargs)
    THEN [ok |-> FALSE, err |-> "TypeError", files |-> fs, dirs |-> ds, space |-> sp,
          saves |-> <<>>]
    ELSE process_texture_with_neon(fs, ds, sp, kwargs.input_path, kwargs.output_path,
            IF "neon_color" \in DOMAIN kwargs THEN kwargs.neon_color ELSE <<0, 255, 255>>,
            IF "opacity" \in DOMAIN kwargs THEN kwargs.opacity ELSE <<3, 10>>,
            IF "blend_mode" \in DOMAIN kwargs THEN kwargs.blend_mode ELSE SCREEN)

\* f"{texture_name}-{color_name}-{opacity}-{blend_mode}.png"
BlendOutputName(texture_name, color_name, opacity, blend_mode) ==
    texture_name \o <<"-">> \o color_name \o <<"-">> \o FormatOpacity(opacity) \o <<"-">>
        \o blend_mode \o EXT_PNG

\* The loop of generate_all_blend_modes from mode k on:
\* [ok, err, files, dirs, space, results]
RECURSIVE blend_mode_loop(_, _, _, _, _, _, _, _)
\* The rest of the loop after the call for mode k returned r
blend_mode_next(r, texture_name, color_name, opacity, k, results) ==
    blend_mode_loop(r.files, r.dirs, r.space, texture_name, color_name, opacity, k + 1,
                    IF r.ok
                    THEN Append(results,
                                BlendOutputName(texture_name, color_name, opacity, BLEND_MODES[k]))
                    ELSE results)

blend_mode_loop(fs, ds, sp, texture_name, color_name, opacity, k, results) ==
    IF k > Len(BLEND_MODES)
    THEN [ok |-> TRUE, err |-> "none", files |-> fs, dirs |-> ds, space |-> sp,
          results |-> results]
    ELSE blend_mode_next(
            call_process_texture_with_neon(fs, ds, sp,
                [input_path  |-> TexturePath(texture_name),
                 output_path |-> PathJoin(OUTPUT_BASE_PATH,
                                    BlendOutputName(texture_name, color_name, opacity,
                                                    BLEND_MODES[k])),
                 color_name  |-> color_name,
                 opacity     |-> opacity,
                 blend_mode  |-> BLEND_MODES[k]]),
            texture_name, color_name, opacity, k, results)

\* generate_all_blend_modes(texture_name, color_name, opacity):
\* [ok, err, files, dirs, space, results]
generate_all_blend_modes(fs, ds, sp, texture_name, color_name, opacity) ==
    LET quit(e) == [ok |-> FALSE, err |-> e, files |-> fs, dirs |-> ds, space |-> sp,
                    results |-> <<>>]
    IN  IF TexturePath(texture_name) \notin DOMAIN fs THEN quit("FileNotFoundError")
        ELSE IF Lower(color_name) \notin ColorNameSet THEN quit("ValueError")
        ELSE IF ~OpacityInRange(opacity) THEN quit("ValueError")
        ELSE blend_mode_loop(fs, ds, sp, texture_name, color_name, opacity, 1, <<>>)

\* One run of generate_all_blend_modes.
GenerateAllBlendModes(texture_name, color_name, opacity) ==
    /\ \E r \in {generate_all_blend_modes(files, dirs, space, texture_name, color_name,
                                             opacity)} :
           /\ files' = r.files
           /\ dirs' = r.dirs
           /\ space' = r.space
           /\ ret' = [op |-> "generate_all_blend_modes", texture_name |-> texture_name,
                      color_name |-> color_name, opacity |-> opacity,
                      outcome |-> IF r.ok THEN "ok" ELSE r.err, results |-> r.results,
                      wrote |-> DOMAIN r.files \ DOMAIN files]
    /\ UNCHANGED <<rng, draws, seen, pc, batch>>

\* The colour names the tool is run with: the palette's, one in upper case, and one
\* that is no colour of the palette
ColorInputs == ColorNameSet \cup {<<"R", "E", "D">>, <<"t", "e", "a", "l">>}

\* The disk has room for the four files.
InitBlendGen ==
    /\ \E image \in Images : files = SourceTree(image)
    /\ dirs = {INPUT_BASE_PATH}
    /\ space = Len(BLEND_MODES)
    /\ rng = Entropy(1)
    /\ draws = 0
    /\ seen = {}
    /\ pc = "ready"
    /\ batch = NoBatch
    /\ ret = [op |-> "none"]

\* The tool is run once.
NextBlendGen ==
    /\ ret.op = "none"
    /\ \E texture_name \in {STONE, GONE}, color_name \in ColorInputs,
          opacity \in OpacityInputs :
            GenerateAllBlendModes(texture_name, color_name, opacity)

SpecBlendGen == InitBlendGen /\ [][NextBlendGen]_vars

\* C9: for an existing texture, a colour of the palette and an opacity in [0, 1],
\* generate_all_blend_modes writes the four files
\* '<texture>-<color>-<opacity>-<mode>.png' and reports the four as generated.
C9_FourFilesGenerated ==
    (/\ ret.op = "generate_all_blend_modes"
     /\ TexturePath(ret.texture_name) \in DOMAIN files
     /\ Lower(ret.color_name) \in ColorNameSet
     /\ OpacityInRange(ret.opacity))
        => /\ ret.outcome = "ok"
           /\ ret.results = [k \in 1..4 |->
                 BlendOutputName(ret.texture_name, ret.color_name, ret.opacity, BLEND_MODES[k])]
           /\ ret.wrote = {PathJoin(OUTPUT_BASE_PATH, ret.results[k]) : k \in 1..4}
           /\ \A p \in ret.wrote : files[p].format = "PNG"

-----------------------------------------------------------------------------
(* The layout of the two grids *)

\* Source textures are up to MaxSide pixels wide and high.
MaxSide == 3

LayoutSources ==
    {ImageNew(<<w, h>>, <<200, 30, 60, 255>>) : w \in 1..MaxSide, h \in 1..MaxSide}

\* The cells whose compositing fails: none, or one
CellFaults == {{}, {<<1, 4>>}}

\* One call of generate_texture_grid(texture_name, color_name).
GenerateTextureGrid(texture_name, color_name, faults) ==
    /\ \E r \in {generate_texture_grid(files, dirs, faults, texture_name, color_name)} :
           ret' = [op |-> "generate_texture_grid", texture_name |-> texture_name,
                   color_name |-> color_name, faults |-> faults,
                   outcome |-> IF r.ok THEN "ok" ELSE r.err, grid |-> r.grid]
    /\ UNCHANGED <<files, dirs, space, rng, draws, seen, pc, batch>>

InitLayout ==
    /\ \E image \in LayoutSources : files = SourceTree(image)
    /\ dirs = {INPUT_BASE_PATH}
    /\ space = 0
    /\ rng = Entropy(1)
    /\ draws = 0
    /\ seen = {}
    /\ pc = "ready"
    /\ batch = NoBatch
    /\ ret = [op |-> "none"]

\* One grid of either kind is built.
NextLayout ==
    /\ ret.op = "none"
    /\ \/ \E texture_name \in {STONE, GONE}, color_name \in ColorInputs,
             faults \in CellFaults :
               GenerateTextureGrid(texture_name, color_name, faults)
       \/ GenerateColorGrid(STONE, {}, Entropy(1))

SpecLayout == InitLayout /\ [][NextLayout]_vars

TextureGridBuilt == ret.op = "generate_texture_grid" /\ ret.outcome = "ok"

\* The cells pasted onto the texture grid ret describes
TextureGridCells ==
    {ret.grid[1].pastes[k] : k \in {j \in 1..Len(ret.grid[1].pastes) :
                                        ret.grid[1].pastes[j].kind = "cell"}}

\* The region a paste covers
Box(p) == [x |-> p.x, y |-> p.y, w |-> p.image.w, h |-> p.image.h]

\* The region of row i of the colour grid ret describes
RowBox(i) ==
    [x |-> row_offset(i, GridSource.h)[1], y |-> row_offset(i, GridSource.h)[2],
     w |-> GridSource.w, h |-> GridSource.h]

Disjoint(a, b) ==
    a.x + a.w <= b.x \/ b.x + b.w <= a.x \/ a.y + a.h <= b.y \/ b.y + b.h <= a.y

Inside(a, canvas) ==
    a.x >= 0 /\ a.y >= 0 /\ a.x + a.w <= canvas.w /\ a.y + a.h <= canvas.h

\* C12: in both grids no two cells overlap and every cell lies inside the canvas:
\* cell (row, col) of the texture grid, of the scaled size 8W x 8H, is pasted at
\* x = 100 + col*(8W+4) + 4, y = 50 + row*(8H+4) + 4, and row i of the colour grid
\* at (0, i*H), where it holds that row's image.
C12_CellsDisjointInsideCanvas ==
    /\ TextureGridBuilt
          => /\ \A a \in TextureGridCells :
                  /\ a.image.w = 8 * GridSource.w
                  /\ a.image.h = 8 * GridSource.h
                  /\ a.x = 100 + a.col * (8 * GridSource.w + 4) + 4
                  /\ a.y = 50 + a.row * (8 * GridSource.h + 4) + 4
                  /\ Inside(Box(a), ret.grid[1])
             /\ \A a \in TextureGridCells, b \in TextureGridCells :
                  (a.row # b.row \/ a.col # b.col) => Disjoint(Box(a), Box(b))
             /\ \A row \in 0..3, col \in 0..8 :
                  <<row, col>> \notin ret.faults
                      => \E a \in TextureGridCells : a.row = row /\ a.col = col
    /\ GridBuilt
          => /\ \A i \in 0..9 :
                  /\ RowBox(i).x = 0
                  /\ RowBox(i).y = i * GridSource.h
                  /\ Inside(RowBox(i), ret.grid[1])
                  /\ GridRegion(i) =
                        Paste(ImageNew(<<GridSource.w, GridSource.h>>, TRANSPARENT),
                              RowComposite(i), 0, 0, RowComposite(i))
             /\ \A i \in 0..9, j \in 0..9 : i # j => Disjoint(RowBox(i), RowBox(j))

C12_Witness ==
    /\ TextureGridBuilt
    /\ GridSource.w = 2
    /\ GridSource.h = 3
    /\ Cardinality(TextureGridCells) = 36

\* C13: the canvas of the texture grid of a W x H source is
\* 100 + 9*(8W + 4) + 4 = 72W + 140 wide and 50 + 4*(8H + 4) + 4 high.
C13_CanvasSize ==
    TextureGridBuilt
        => /\ ret.grid[1].w = 100 + 9 * (GridSource.w * 8 + 4) + 4
           /\ ret.grid[1].w = 72 * GridSource.w + 140
           /\ ret.grid[1].h = 50 + 4 * (GridSource.h * 8 + 4) + 4

C13_Witness ==
    /\ TextureGridBuilt
    /\ GridSource.w = 3
    /\ GridSource.h = 1
    /\ ret.grid[1].w = 356

-----------------------------------------------------------------------------
(* The command lines.  sys.argv is a sequence of strings, the script's name first.
   A process ends with status 0 when main returns, with 1 on sys.exit(1), and with 1
   when an exception escapes main. *)

\* s.split(sep), sep one character
RECURSIVE Split(_, _)
Split(s, sep) ==
    IF Find(s, sep) = 0 THEN <<s>>
    ELSE <<SubSeq(s, 1, Find(s, sep) - 1)>> \o Split(SubSeq(s, Find(s, sep) + 1, Len(s)), sep)

IsDigits(s) == Len(s) > 0 /\ \A i \in 1..Len(s) : \E d \in 1..10 : Digits[d] = s[i]

RECURSIVE DigitsValue(_)
DigitsValue(s) ==
    IF s = <<>> THEN 0
    ELSE 10 * DigitsValue(SubSeq(s, 1, Len(s) - 1))
            + (CHOOSE d \in 0..9 : Digits[d + 1] = s[Len(s)])

\* int(s) for s an optional sign and decimal digits, ValueError for another string:
\* [ok, err, val]
ParseInt(s) ==
    IF IsDigits(s) THEN [ok |-> TRUE, err |-> "none", val |-> DigitsValue(s)]
    ELSE IF Len(s) > 1 /\ s[1] = "-" /\ IsDigits(Tail(s))
    THEN [ok |-> TRUE, err |-> "none", val |-> 0 - DigitsValue(Tail(s))]
    ELSE [ok |-> FALSE, err |-> "ValueError", val |-> 0]

\* float(s) for s an integer literal or one with a single decimal, in tenths;
\* ValueError for another string: [ok, err, val]
ParseFloat(s) ==
    IF ParseInt(s).ok THEN [ParseInt(s) EXCEPT !.val = <<10 * @, 10>>]
    ELSE IF Len(s) >= 3 /\ s[Len(s) - 1] = "." /\ IsDigits(<<s[Len(s)]>>)
            /\ ParseInt(SubSeq(s, 1, Len(s) - 2)).ok
    THEN [ok |-> TRUE, err |-> "none",
          val |-> <<IF s[1] = "-"
                    THEN 10 * ParseInt(SubSeq(s, 1, Len(s) - 2)).val - DigitsValue(<<s[Len(s)]>>)
                    ELSE 10 * ParseInt(SubSeq(s, 1, Len(s) - 2)).val + DigitsValue(<<s[Len(s)]>>),
                    10>>]
    ELSE [ok |-> FALSE, err |-> "ValueError", val |-> <<0, 10>>]

INPUT_BASE_CHARS ==
    <<"o", "r", "i", "g", "/", "a", "s", "s", "e", "t", "s", "/", "m", "i", "n", "e", "c", "r", "a", "f", "t", "/", "t", "e", "x", "t", "u", "r", "e", "s", "/", "b", "l", "o", "c", "k", "s">>

\* The path a command-line string names: its directory up to the last "/", one of
\* the directories of the model
ArgPath(s) ==
    IF RFind(s, "/") = 0 THEN InCwd(s)
    ELSE PathJoin(IF SubSeq(s, 1, RFind(s, "/") - 1) = INPUT_BASE_CHARS
                  THEN INPUT_BASE_PATH ELSE "out",
                  SubSeq(s, RFind(s, "/") + 1, Len(s)))

\* What a process ends with: its exit status, whether it only printed its usage,
\* the exception that ended or escaped it, and the file system and generator it leaves
Exit(status, usage, err, fs, ds, sp, g) ==
    [status |-> status, usage |-> usage, err |-> err, files |-> fs, dirs |-> ds,
     space |-> sp, rng |-> g]

\* The end of a main whose call returned or raised as r: 0 on return, 1 on
\* sys.exit(1) in the except clause or when the exception escapes
process_exit(r, g) == Exit(IF r.ok THEN 0 ELSE 1, FALSE, r.err, r.files, r.dirs, r.space, g)

\* tuple(map(int, color_str.split(','))) with its length check: [ok, val]
ParseColor(color_str) ==
    IF Len(Split(color_str, ",")) # 3
          \/ \E k \in 1..Len(Split(color_str, ",")) : ~ParseInt(Split(color_str, ",")[k]).ok
    THEN [ok |-> FALSE, val |-> <<0, 0, 0>>]
    ELSE [ok |-> TRUE, val |-> [k \in 1..3 |-> ParseInt(Split(color_str, ",")[k]).val]]

FLAG_COLOR == <<"-", "-", "c", "o", "l", "o", "r">>
FLAG_OPACITY == <<"-", "-", "o", "p", "a", "c", "i", "t", "y">>
FLAG_BLEND == <<"-", "-", "b", "l", "e", "n", "d">>
FLAG_QUALITY == <<"-", "-", "q", "u", "a", "l", "i", "t", "y">>

\* The option loop of main of neon_texture_overlay.py from sys.argv[i] on (i from 1
\* here): [ok, neon_color, opacity, blend_mode, quality], ok false on sys.exit(1)
RECURSIVE overlay_options(_, _, _)
overlay_options(argv, i, opts) ==
    IF i > Len(argv) THEN opts
    ELSE IF argv[i] = FLAG_COLOR /\ i + 1 <= Len(argv)
    THEN IF ~ParseColor(argv[i + 1]).ok THEN [opts EXCEPT !.ok = FALSE]
         ELSE overlay_options(argv, i + 2,
                              [opts EXCEPT !.neon_color = ParseColor(argv[i + 1]).val])
    ELSE IF argv[i] = FLAG_OPACITY /\ i + 1 <= Len(argv)
    THEN IF ~ParseFloat(argv[i + 1]).ok \/ ~OpacityInRange(ParseFloat(argv[i + 1]).val)
         THEN [opts EXCEPT !.ok = FALSE]
         ELSE overlay_options(argv, i + 2,
                              [opts EXCEPT !.opacity = ParseFloat(argv[i + 1]).val])
    ELSE IF argv[i] = FLAG_BLEND /\ i + 1 <= Len(argv)
    THEN IF argv[i + 1] \notin {SCREEN, OVERLAY, MULTIPLY, NORMAL}
         THEN [opts EXCEPT !.ok = FALSE]
         ELSE overlay_options(argv, i + 2, [opts EXCEPT !.blend_mode = argv[i + 1]])
    ELSE IF argv[i] = FLAG_QUALITY /\ i + 1 <= Len(argv)
    THEN IF ~ParseInt(argv[i + 1]).ok \/ ParseInt(argv[i + 1]).val < 1
               \/ ParseInt(argv[i + 1]).val > 100
         THEN [opts EXCEPT !.ok = FALSE]
         ELSE overlay_options(argv, i + 2, [opts EXCEPT !.quality = ParseInt(argv[i + 1]).val])
    ELSE [opts EXCEPT !.ok = FALSE]

\* main of neon_texture_overlay.py after the option loop
overlay_run(fs, ds, sp, g, argv, opts) ==
    IF ~opts.ok THEN Exit(1, FALSE, "none", fs, ds, sp, g)
    ELSE process_exit(process_texture_with_neon(fs, ds, sp, ArgPath(argv[2]),
                            ArgPath(argv[3]), opts.neon_color, opts.opacity, opts.blend_mode),
                      g)

\* main of neon_texture_overlay.py
overlay_main(fs, ds, sp, g, argv) ==
    IF Len(argv) < 3 THEN Exit(1, TRUE, "none", fs, ds, sp, g)
    ELSE overlay_run(fs, ds, sp, g, argv,
                     overlay_options(argv, 4,
                        [ok |-> TRUE, neon_color |-> <<0, 255, 255>>, opacity |-> <<3, 10>>,
                         blend_mode |-> SCREEN, quality |-> 95]))

\* The end of main of texture_color_grid.py, process_texture_color_grid having
\* returned or raised as r
color_grid_exit(r) == process_exit(r, r.rng)

\* main of texture_color_grid.py
color_grid_main(fs, ds, sp, g, reseeded, argv) ==
    IF Len(argv) < 2 THEN Exit(1, TRUE, "none", fs, ds, sp, g)
    ELSE color_grid_exit(process_texture_color_grid(fs, ds, sp, g, reseeded, {}, argv[2],
                                                    NoPath))

\* main of texture_blend_generator.py
blend_generator_main(fs, ds, sp, g, argv) ==
    IF Len(argv) # 4 THEN Exit(1, TRUE, "none", fs, ds, sp, g)
    ELSE IF ~ParseFloat(argv[4]).ok THEN Exit(1, FALSE, "ValueError", fs, ds, sp, g)
    ELSE process_exit(generate_all_blend_modes(fs, ds, sp, argv[2], argv[3],
                                               ParseFloat(argv[4]).val), g)

NEON_TEXTURE_OVERLAY == "neon_texture_overlay.py"
TEXTURE_COLOR_GRID == "texture_color_grid.py"
TEXTURE_BLEND_GENERATOR == "texture_blend_generator.py"

\* main of the script tool
main(tool, fs, ds, sp, g, reseeded, argv) ==
    IF tool = NEON_TEXTURE_OVERLAY THEN overlay_main(fs, ds, sp, g, argv)
    ELSE IF tool = TEXTURE_COLOR_GRID THEN color_grid_main(fs, ds, sp, g, reseeded, argv)
    ELSE blend_generator_main(fs, ds, sp, g, argv)

\* One run of a script from the command line.
Main(tool, argv, reseeded) ==
    /\ \E r \in {main(tool, files, dirs, space, rng, reseeded, argv)} :
           /\ files' = r.files
           /\ dirs' = r.dirs
           /\ space' = r.space
           /\ rng' = r.rng
           /\ ret' = [op |-> "main", tool |-> tool, argv |-> argv, status |-> r.status,
                      usage |-> r.usage, err |-> r.err,
                      wrote |-> {q \in DOMAIN r.files : q \notin DOMAIN files
                                                         \/ r.files[q] # files[q]},
                      files_before |-> DOMAIN files, dirs_before |-> dirs,
                      rng_before |-> rng]
    /\ UNCHANGED <<draws, seen, pc, batch>>

SCRIPT == <<"x", ".", "p", "y">>
ARG_STONE == INPUT_BASE_CHARS \o <<"/">> \o STONE \o EXT_PNG
ARG_GONE == INPUT_BASE_CHARS \o <<"/">> \o GONE \o EXT_PNG
ARG_OUT == <<"o", "u", "t", "/", "n", ".", "p", "n", "g">>

\* The option lists neon_texture_overlay.py is run with
OverlayOptions ==
    {<<>>,
     <<FLAG_OPACITY, <<"0", ".", "5">>>>,
     <<FLAG_OPACITY, <<"1", ".", "5">>>>,
     <<FLAG_OPACITY, <<"a", "b", "c">>>>,
     <<FLAG_OPACITY>>,
     <<FLAG_COLOR, <<"2", "5", "5", ",", "0", ",", "2", "5", "5">>>>,
     <<FLAG_COLOR, <<"1", ",", "2">>>>,
     <<FLAG_BLEND, OVERLAY>>,
     <<FLAG_BLEND, <<"a", "d", "d">>>>,
     <<FLAG_QUALITY, <<"0">>>>,
     <<FLAG_QUALITY, <<"9", "0">>, FLAG_BLEND, MULTIPLY, FLAG_OPACITY, <<"1">>>>,
     <<<<"-", "-", "b", "o", "g", "u", "s">>>>}

OverlayArgvs ==
    {<<SCRIPT>>, <<SCRIPT, ARG_STONE>>}
        \cup {<<SCRIPT, ARG_STONE, ARG_OUT>> \o o : o \in OverlayOptions}
        \cup {<<SCRIPT, ARG_GONE, ARG_OUT>>,
              <<SCRIPT, ARG_STONE, <<"n", ".", "j", "p", "g">>>>}

ColorGridArgvs == {<<SCRIPT>>, <<SCRIPT, STONE>>, <<SCRIPT, GONE>>}

BlendGeneratorArgvs ==
    {<<SCRIPT>>, <<SCRIPT, STONE, RED>>,
     <<SCRIPT, STONE, RED, <<"0", ".", "5">>>>,
     <<SCRIPT, STONE, RED, <<"1">>>>,
     <<SCRIPT, STONE, RED, <<"1", ".", "5">>>>,
     <<SCRIPT, STONE, RED, <<"a", "b", "c">>>>,
     <<SCRIPT, STONE, <<"t", "e", "a", "l">>, <<"0", ".", "5">>>>,
     <<SCRIPT, GONE, RED, <<"0", ".", "5">>>>}

InitCli ==
    /\ \E image \in Images : files = SourceTree(image)
    /\ dirs = {INPUT_BASE_PATH}
    /\ space \in 0..(MaxSpace + 1)
    /\ rng = Entropy(1)
    /\ draws = 0
    /\ seen = {}
    /\ pc = "ready"
    /\ batch = NoBatch
    /\ ret = [op |-> "none"]

\* One script is run once.
NextCli ==
    /\ ret.op = "none"
    /\ \/ \E argv \in OverlayArgvs : Main(NEON_TEXTURE_OVERLAY, argv, Entropy(2))
       \/ \E argv \in ColorGridArgvs : Main(TEXTURE_COLOR_GRID, argv, Entropy(2))
       \/ \E argv \in BlendGeneratorArgvs : Main(TEXTURE_BLEND_GENERATOR, argv, Entropy(2))

SpecCli == InitCli /\ [][NextCli]_vars

\* The number of files a run of tool is asked to produce
RequestedFiles(tool) ==
    IF tool = NEON_TEXTURE_OVERLAY THEN 1
    ELSE IF tool = TEXTURE_COLOR_GRID THEN 2
    ELSE Len(BLEND_MODES)

\* C14: a script ends with status 0 when it only printed its usage (arguments
\* missing) and when it produced what it was asked for, and with a non-zero status
\* whenever a validation or I/O failure kept the requested output from being produced.
C14_ExitStatus ==
    ret.op = "main"
        => /\ ret.usage => ret.status = 0
           /\ ~ret.usage =>
                (ret.status = 0 <=> Cardinality(ret.wrote) = RequestedFiles(ret.tool))

\* C15: with the source texture absent, the colour-grid run of one texture ends at
\* once with a missing-file error: no image and no sidecar is written, the output
\* directory is not made, and the global generator is not reseeded.
C15_MissingSourceAborts ==
    (/\ ret.op = "main"
     /\ ret.tool = TEXTURE_COLOR_GRID
     /\ ~ret.usage
     /\ TexturePath(ret.argv[2]) \notin ret.files_before)
        => /\ ret.err = "FileNotFoundError"
           /\ ret.status # 0
           /\ ret.wrote = {}
           /\ DOMAIN files = ret.files_before
           /\ dirs = ret.dirs_before
           /\ OUTPUT_BASE_PATH \notin dirs
           /\ rng = ret.rng_before

C15_Witness ==
    /\ ret.op = "main"
    /\ ret.tool = TEXTURE_COLOR_GRID
    /\ ret.argv = <<SCRIPT, GONE>>
    /\ ret.err = "FileNotFoundError"
    /\ space > 1
    /\ rng # Entropy(2)

-----------------------------------------------------------------------------
(* blend_texture_with_neon called again and again by one process, between draws the
   process makes from the global generator *)

\* A process calls blend_texture_with_neon at most MaxCalls times.
MaxCalls == 2

GREY == <<"g", "r", "e", "y">>

\* A fully opaque red pixel, and the opaque grey pixel of the same luma
RED_PIXEL == <<255, 0, 0, 255>>
GREY_PIXEL == <<76, 76, 76, 255>>

\* The source directory with a texture of one red pixel and one of one grey pixel
\* next to stone
HueTree(image) ==
    (TexturePath(STONE) :> PngFile(image))
        @@ (TexturePath(RED) :> PngFile(ImageNew(<<1, 1>>, RED_PIXEL)))
        @@ (TexturePath(GREY) :> PngFile(ImageNew(<<1, 1>>, GREY_PIXEL)))

CYAN == <<0, 255, 255>>

\* The opacities of the calls: 0.3 and the invalid 1.1
CallOpacities == {<<3, 10>>, <<11, 10>>}

\* What the call can see besides its arguments
Globals(fs, ds, sp, g) == [files |-> fs, dirs |-> ds, space |-> sp, rng |-> g]

\* One call, were the compositor to draw from the global generator and to add the
\* draw's lowest bit to each channel of the glow
CallBlendTextureWithNeonJittered(input_path, neon_color, opacity, blend_mode) ==
    /\ Cardinality(seen) < MaxCalls
    /\ load_image(files, dirs, input_path).ok
    /\ rng' = Advance(rng)
    /\ UNCHANGED <<files, dirs, space, draws, pc, batch>>
    /\ \E texture \in {load_image(files, dirs, input_path).val} :
       \E r \in {blend_texture_with_neon(texture, neon_color, opacity, blend_mode)} :
       \E jitter \in {rng % 2} :
       \E call \in {[texture |-> texture, source_after |-> texture,
                     neon_color |-> neon_color, opacity |-> opacity,
                     blend_mode |-> blend_mode,
                     outcome |-> IF r.ok THEN "ok" ELSE r.err,
                     image |-> IF r.ok
                               THEN <<[r.val EXCEPT !.px = [i \in 1..Len(r.val.px) |->
                                        [c \in 1..4 |->
                                            IF r.val.px[i][c] < 255
                                            THEN r.val.px[i][c] + jitter
                                            ELSE 255]]]>>
                               ELSE <<>>,
                     globals_before |-> Globals(files, dirs, space, rng),
                     globals_after |-> Globals(files', dirs', space', rng')]} :
           /\ seen' = seen \cup {call}
           /\ ret' = [op |-> "blend_texture_with_neon", call |-> call]

\* One call of blend_texture_with_neon on the texture loaded from input_path
CallBlendTextureWithNeon(input_path, neon_color, opacity, blend_mode) ==
    /\ Cardinality(seen) < MaxCalls
    /\ load_image(files, dirs, input_path).ok
    /\ UNCHANGED <<files, dirs, space, rng, draws, pc, batch>>
    /\ \E texture \in {load_image(files, dirs, input_path).val} :
       \E r \in {blend_texture_with_neon(texture, neon_color, opacity, blend_mode)} :
       \E call \in {[texture |-> texture, source_after |-> texture,
                     neon_color |-> neon_color, opacity |-> opacity,
                     blend_mode |-> blend_mode,
                     outcome |-> IF r.ok THEN "ok" ELSE r.err,
                     image |-> IF r.ok THEN <<r.val>> ELSE <<>>,
                     globals_before |-> Globals(files, dirs, space, rng),
                     globals_after |-> Globals(files', dirs', space', rng')]} :
           /\ seen' = seen \cup {call}
           /\ ret' = [op |-> "blend_texture_with_neon", call |-> call]

\* The stone textures of the calls: two pixels wide, an opaque pixel beside a half
\* transparent one
TwoPixelImages == {image \in Images : /\ image.w = 2
                                      /\ image.px[1][4] = 255
                                      /\ image.px[2][4] < 255}

InitPure ==
    /\ \E image \in TwoPixelImages : files = HueTree(image)
    /\ dirs = {INPUT_BASE_PATH}
    /\ space = 1
    /\ rng = Entropy(1)
    /\ draws = 0
    /\ seen = {}
    /\ pc = "ready"
    /\ batch = NoBatch
    /\ ret = [op |-> "none"]

NextPure ==
    \/ \E input_path \in {TexturePath(STONE), TexturePath(RED), TexturePath(GREY)},
          opacity \in CallOpacities, blend_mode \in BlendModeInputs :
            CallBlendTextureWithNeon(input_path, CYAN, opacity, blend_mode)
    \/ DrawRandom

SpecPure == InitPure /\ [][NextPure]_vars

\* Two calls were given the same arguments
SameArguments(a, b) ==
    /\ a.texture = b.texture
    /\ a.neon_color = b.neon_color
    /\ a.opacity = b.opacity
    /\ a.blend_mode = b.blend_mode

Luma(pixel) == (pixel[1] * 19595 + pixel[2] * 38470 + pixel[3] * 7471 + 32768) \div 65536

\* image with the hue taken out of its RGB channels, its alpha kept
Desaturated(image) ==
    [image EXCEPT !.px = [i \in 1..Len(image.px) |->
        <<Luma(image.px[i]), Luma(image.px[i]), Luma(image.px[i]), image.px[i][4]>>]]

\* C17: blend_texture_with_neon desaturates the source before blending: two sources
\* with the same desaturated value and the same alpha give the same output under
\* the same colour, opacity and mode, and the output is the one the desaturated
\* source gives (for the opaque red source, cyan, 0.3 and 'screen': the
\* interpolation of desaturated red and cyan by 0.3, brightened by 1.5).
C17_DesaturatesSource ==
    /\ \A a \in seen, b \in seen :
          (/\ Desaturated(a.texture) = Desaturated(b.texture)
           /\ a.neon_color = b.neon_color
           /\ a.opacity = b.opacity
           /\ a.blend_mode = b.blend_mode)
              => (a.outcome = b.outcome /\ a.image = b.image)
    /\ \A a \in seen :
          (a.outcome = "ok" /\ a.blend_mode = SCREEN)
              => a.image = <<EnhanceBrightness(
                                ImageBlend(Desaturated(a.texture),
                                           ImageNew(<<a.texture.w, a.texture.h>>,
                                                    <<a.neon_color[1], a.neon_color[2],
                                                      a.neon_color[3],
                                                      (255 * a.opacity[1]) \div a.opacity[2]>>),
                                           a.opacity),
                                <<3, 2>>)>>

\* The overlay of a call: the colour at alpha floor(255 * opacity) on every pixel
OverlayOf(a) ==
    ImageNew(<<a.texture.w, a.texture.h>>,
             <<a.neon_color[1], a.neon_color[2], a.neon_color[3],
               (255 * a.opacity[1]) \div a.opacity[2]>>)

\* C19: 'screen' interpolates source and overlay by opacity, 'multiply' by
\* opacity / 2, 'overlay' and 'normal' alpha-composite the overlay, of alpha
\* floor(255 * opacity), over the source (the glow then brightens each result), so
\* 'overlay' and 'normal' give the same image; a tag that names none of the four
\* modes is not refused and gives the image 'normal' gives.
C19_BlendModeDispatch ==
    /\ \A a \in seen :
          OpacityInRange(a.opacity)
              => /\ a.outcome = "ok"
                 /\ a.image =
                       <<EnhanceBrightness(
                            IF a.blend_mode = SCREEN
                            THEN ImageBlend(a.texture, OverlayOf(a), a.opacity)
                            ELSE IF a.blend_mode = MULTIPLY
                            THEN ImageBlend(a.texture, OverlayOf(a),
                                            <<a.opacity[1], 2 * a.opacity[2]>>)
                            ELSE AlphaComposite(a.texture, OverlayOf(a)),
                            <<3, 2>>)>>
    /\ \A a \in seen, b \in seen :
          (/\ a.texture = b.texture
           /\ a.neon_color = b.neon_color
           /\ a.opacity = b.opacity
           /\ a.blend_mode \notin {SCREEN, MULTIPLY}
           /\ b.blend_mode \notin {SCREEN, MULTIPLY})
              => (a.outcome = b.outcome /\ a.image = b.image)

C19_Witness ==
    \E a \in seen, b \in seen :
        /\ a.texture = b.texture
        /\ a.opacity = <<3, 10>>
        /\ b.opacity = <<3, 10>>
        /\ a.blend_mode \notin {SCREEN, OVERLAY, MULTIPLY, NORMAL}
        /\ b.blend_mode = NORMAL
        /\ a.outcome = "ok"
        /\ a.image # <<a.texture>>

-----------------------------------------------------------------------------
(* The prefix of a texture name, and the seed made of it *)

\* Texture names are made of at most MaxNameLen characters of PrefixAlphabet.
MaxNameLen == 3

PrefixAlphabet == {"l", "o", "g", "_"}

\* The names get_texture_prefix is applied to: every short string of the alphabet
\* (the empty name, names that begin with an underscore and leading fragments of
\* 'log' among them), the group names, and names that match no group
PrefixNames ==
    UNION {[1..n -> PrefixAlphabet] : n \in 0..MaxNameLen}
        \cup {BLOCK_GROUPS[i] : i \in 1..Len(BLOCK_GROUPS)}
        \cup OrderNames \cup {STONE, <<"d", "o", "o", "r">>, <<"q", "u", "_", "x", "_", "y">>}

\* prefix = get_texture_prefix(texture_name); random.seed(prefix)
SeedFromPrefix(texture_name) ==
    /\ ret.op = "none"
    /\ \E prefix \in {get_texture_prefix(texture_name)} :
           /\ rng' = random_seed(prefix)
           /\ ret' = [op |-> "get_texture_prefix", texture_name |-> texture_name,
                      prefix |-> prefix]
    /\ UNCHANGED <<files, dirs, space, draws, seen, pc, batch>>

\* The prefix computed is itself given to get_texture_prefix, and the generator is
\* seeded with the result.
SeedFromPrefixAgain ==
    /\ ret.op = "get_texture_prefix"
    /\ \E prefix \in {get_texture_prefix(ret.prefix)} :
           /\ rng' = random_seed(prefix)
           /\ ret' = [op |-> "get_texture_prefix again", texture_name |-> ret.texture_name,
                      prefix |-> ret.prefix, seed |-> rng, prefix_again |-> prefix]
    /\ UNCHANGED <<files, dirs, space, draws, seen, pc, batch>>

InitPrefix ==
    /\ files = SourceTree(ImageNew(<<1, 1>>, <<200, 30, 60, 255>>))
    /\ dirs = {INPUT_BASE_PATH}
    /\ space = 0
    /\ rng = Entropy(1)
    /\ draws = 0
    /\ seen = {}
    /\ pc = "ready"
    /\ batch = NoBatch
    /\ ret = [op |-> "none"]

NextPrefix ==
    \/ \E texture_name \in PrefixNames : SeedFromPrefix(texture_name)
    \/ SeedFromPrefixAgain

SpecPrefix == InitPrefix /\ [][NextPrefix]_vars

\* C22: get_texture_prefix is idempotent: for every texture name, the prefix of the
\* prefix is the prefix, so seeding again from a computed prefix gives the same seed.
C22_PrefixIdempotent ==
    ret.op = "get_texture_prefix again"
        => /\ ret.prefix_again = ret.prefix
           /\ rng = ret.seed

C22_Witness ==
    /\ ret.op = "get_texture_prefix again"
    /\ Find(ret.texture_name, "_") > 1
    /\ ret.prefix # SplitFirst(ret.texture_name, "_")
    /\ StartsWith(ret.prefix, SplitFirst(ret.texture_name, "_"))
    /\ ret.prefix # ret.texture_name

-----------------------------------------------------------------------------
(* batch_color_grid_generator.py: main, which scans, asks and then processes *)

WHITESPACE == {" ", "\t", "\n"}

\* str.strip(): s without its leading and trailing whitespace
RECURSIVE Strip(_)
Strip(s) ==
    IF s = <<>> THEN s
    ELSE IF s[1] \in WHITESPACE THEN Strip(Tail(s))
    ELSE IF s[Len(s)] \in WHITESPACE THEN Strip(SubSeq(s, 1, Len(s) - 1))
    ELSE s

\* The answers that let the batch proceed
YES_ANSWERS == {<<"y">>, <<"y", "e", "s">>}

\* What input() gives: a line the user typed, or the exception it raises when the
\* user interrupts or the input has ended
Line(text) == [kind |-> "line", text |-> text]

Answers ==
    {Line(t) : t \in {<<"y">>, <<"y", "e", "s">>, <<"Y">>, <<" ", "Y", "e", "s", " ">>,
                      <<"Y", "E", "S", "\t">>, <<"n">>, <<"n", "o">>, <<>>, <<" ">>,
                      <<"y", "e">>, <<"y", " ", "e", "s">>, <<"y", "y">>,
                      <<"y", "e", "s", "!">>}}
        \cup {[kind |-> "KeyboardInterrupt", text |-> <<>>],
              [kind |-> "EOFError", text |-> <<>>]}

\* main up to the question: the scan, and the exit when the source directory is
\* missing or nothing needs processing.
BatchMainScan ==
    /\ pc = "ready"
    /\ \E all_textures \in {get_all_png_files(files, dirs)} :
       \E r \in {get_textures_to_process(files, dirs)} :
           IF ~all_textures.ok
           THEN /\ pc' = "exited"
                /\ ret' = [op |-> "main", status |-> 1, end |-> all_textures.err,
                           textures_to_process |-> <<>>]
           ELSE IF r.val = <<>>
           THEN /\ pc' = "exited"
                /\ ret' = [op |-> "main", status |-> 0, end |-> "nothing to process",
                           textures_to_process |-> r.val]
           ELSE /\ pc' = "input"
                /\ ret' = [op |-> "main", status |-> 0, end |-> "asking",
                           textures_to_process |-> r.val]
    /\ UNCHANGED <<files, dirs, space, rng, draws, seen, batch>>

\* The question answered, were every answer but 'n' and 'no' to let the batch proceed
BatchMainConfirmByDefault(answer) ==
    /\ pc = "input"
    /\ seen' = seen \cup {answer}
    /\ IF answer.kind # "line"
       THEN /\ pc' = "exited"
            /\ ret' = [ret EXCEPT !.status = 1, !.end = answer.kind]
            /\ batch' = batch
       ELSE IF Strip(Lower(answer.text)) \in {<<"n">>, <<"n", "o">>}
       THEN /\ pc' = "exited"
            /\ ret' = [ret EXCEPT !.end = "cancelled"]
            /\ batch' = batch
       ELSE /\ pc' = "loop"
            /\ ret' = [ret EXCEPT !.end = "processing"]
            /\ batch' = [textures |-> ret.textures_to_process, i |-> 0,
                         success_count |-> 0, failed_textures |-> <<>>,
                         attempted |-> <<>>]
    /\ UNCHANGED <<files, dirs, space, rng, draws>>

\* The question is answered: response = input(...).lower().strip(); main returns
\* unless response is 'y' or 'yes', and enters batch_process_textures otherwise.
BatchMainConfirm(answer) ==
    /\ pc = "input"
    /\ seen' = seen \cup {answer}
    /\ IF answer.kind # "line"
       THEN /\ pc' = "exited"
            /\ ret' = [ret EXCEPT !.status = 1, !.end = answer.kind]
            /\ batch' = batch
       ELSE IF Strip(Lower(answer.text)) \notin YES_ANSWERS
       THEN /\ pc' = "exited"
            /\ ret' = [ret EXCEPT !.end = "cancelled"]
            /\ batch' = batch
       ELSE /\ pc' = "loop"
            /\ ret' = [ret EXCEPT !.end = "processing"]
            /\ batch' = [textures |-> ret.textures_to_process, i |-> 0,
                         success_count |-> 0, failed_textures |-> <<>>,
                         attempted |-> <<>>]
    /\ UNCHANGED <<files, dirs, space, rng, draws>>

\* The source directory main starts with: missing, empty, or holding some of a
\* texture, its sidecar, and a file that is no image
BatchMainNames ==
    {STONE \o EXT_PNG, STONE \o EXT_PNG \o EXT_MCMETA, BAD \o EXT_PNG}

InitBatchMain ==
    /\ \E S \in SUBSET BatchMainNames :
          /\ files = [p \in {PathJoin(INPUT_BASE_PATH, n) : n \in S} |->
                         IF p.name = BAD \o EXT_PNG THEN CorruptFile ELSE ScanFile(p.name)]
          /\ dirs \in IF S = {} THEN {{}, {INPUT_BASE_PATH}} ELSE {{INPUT_BASE_PATH}}
    /\ space \in 0..MaxSpace
    /\ rng = Entropy(1)
    /\ draws = 0
    /\ seen = {}
    /\ pc = "ready"
    /\ batch = NoBatch
    /\ ret = [op |-> "none"]

NextBatchMain ==
    \/ BatchMainScan
    \/ \E answer \in Answers : BatchMainConfirm(answer)
    \/ BatchIterate(Entropy(1))
    \/ BatchSummary

SpecBatchMain == InitBatchMain /\ [][NextBatchMain]_vars

\* The files and directories below the output tree
OutputFiles == {p \in DOMAIN files : p.dir = OUTPUT_BASE_PATH}

\* The user has confirmed: the answer, lower-cased and trimmed, is 'y' or 'yes'
Confirmed ==
    \E answer \in seen : /\ answer.kind = "line"
                         /\ Strip(Lower(answer.text)) \in YES_ANSWERS

\* C23: main of the batch driver never processes a texture before the user has
\* confirmed: batch_process_textures is entered only after an answer that, trimmed
\* and lower-cased, is 'y' or 'yes'; with any other answer, with no texture to
\* process or with the source directory missing, no output image and no sidecar is
\* written.
C23_ConfirmedBeforeProcessing ==
    /\ (pc \in {"loop", "done"} \/ batch # NoBatch)
          => /\ Confirmed
             /\ INPUT_BASE_PATH \in dirs
             /\ batch.textures # <<>>
    /\ (~Confirmed \/ INPUT_BASE_PATH \notin dirs)
          => /\ OutputFiles = {}
             /\ OUTPUT_BASE_PATH \notin dirs
             /\ \A p \in DOMAIN files : p.dir = INPUT_BASE_PATH
             /\ batch = NoBatch
    /\ (pc = "exited" /\ ret.textures_to_process = <<>>)
          => /\ OutputFiles = {}
             /\ seen = {}

C23_Witness ==
    /\ pc = "done"
    /\ seen = {Line(<<" ", "Y", "e", "s", " ">>)}
    /\ Cardinality(OutputFiles) = 2
    /\ ret.successful = 1

====
